---------------------------- MODULE Spec2Model ----------------------------
(***************************************************************************)
(* The PCx86 SerialPort component (an NS8250A-class UART): its register    *)
(* bank, the receive queue, the interrupt arbiter (updateIRR), the port    *)
(* handlers and the connection to a peer component.                        *)
(*                                                                         *)
(* Registers are JavaScript numbers; the bitwise operators are modelled on *)
(* non-negative integers (every register value here stays below 2^31, so   *)
(* the 32-bit signed wrap of the JavaScript operators never applies).      *)
(*                                                                         *)
(* Init is the state of an adapter 1 or 2 port after the constructor,      *)
(* initBus() and a first powerUp() without saved state (that is, reset()). *)
(***************************************************************************)
EXTENDS Integers, Sequences, FiniteSets, TLC

---------------------------------------------------------------------------
(* Bounds of the model *)

\* longest receive queue explored
MaxQueue == 2
\* longest array handed to one receiveData() call
MaxBurst == 2
\* longest console line explored
MaxLine == 2
MaxCol == 4

---------------------------------------------------------------------------
(* Bitwise operators of JavaScript on non-negative integers *)

RECURSIVE And(_, _)
And(a, b) ==
    IF a = 0 \/ b = 0 THEN 0
    ELSE (a % 2) * (b % 2) + 2 * And(a \div 2, b \div 2)

Or(a, b) == a + b - And(a, b)

Xor(a, b) == a + b - 2 * And(a, b)

\* a & ~m
AndNot(a, m) == a - And(a, m)

\* a << n
Shl(a, n) == a * (2 ^ n)

\* a >> n
Shr(a, n) == a \div (2 ^ n)

---------------------------------------------------------------------------
(* Register bit definitions *)

DL_DEFAULT == 384

IER_RBR_AVAIL == 1
IER_THR_EMPTY == 2
IER_LSR_DELTA == 4
IER_MSR_DELTA == 8
IER_UNUSED == 240

IIR_NO_INT == 1
IIR_INT_RBR == 4
IIR_INT_MSR == 0
IIR_INT_BITS == 6
IIR_INT_LSR == 6
IIR_INT_THR == 2
IIR_UNUSED == 248

LCR_DLAB == 128

MCR_DTR == 1
MCR_RTS == 2
MCR_UNUSED == 224

LSR_DR == 1
LSR_OE == 2
LSR_PE == 4
LSR_FE == 8
LSR_BI == 16
LSR_THRE == 32
LSR_TSRE == 64

MSR_DCTS == 1
MSR_DDSR == 2
MSR_TERI == 4
MSR_DRLSD == 8
MSR_CTS == 16
MSR_DSR == 32

\* RS-232 pin masks (1 << pin number) of the shared defines
RS232_RTS == 16
RS232_CTS == 32
RS232_DSR == 64
RS232_CD == 256
RS232_DTR == 1048576

\* JavaScript's null.  TLC compares a string with a sequence of its own
\* length character by element, so the string is longer than the arrays and
\* shorter than the long lines it is compared with.
NULL == "null: the field names no object or string"

\* a register that was never assigned (undefined): no register value equals it
UNDEFINED == -1

---------------------------------------------------------------------------
(* Inputs *)

\* bytes a peer or the host delivers
DataBytes == {16, 32}

\* bytes the bus writes to offset 0 (THR, or DLL under DLAB)
THRBytes == {88}

\* bytes the bus writes to offset 1 (IER, or DLM under DLAB)
IERBytes == {0, 1, 8, 9}

\* bytes the bus writes to offset 3 (LCR)
LCRBytes == {0, 128}

\* bytes the bus writes to offset 4 (MCR)
MCRBytes == {0, 1, 2, 3, 8, 11}

\* bytes the bus writes to offsets 1 and 4 while the register file is explored
DLMBytes == {0, 9}
BusMCRBytes == {3}

\* pin masks a peer passes to receiveStatus()
PinSets == {0, RS232_CTS, RS232_CTS + RS232_DSR}

\* pin masks while the modem lines are explored
ModemPinSets == {0, RS232_CTS, RS232_DSR, RS232_CTS + RS232_DSR, RS232_RTS}

RECURSIVE SeqsUpTo(_, _)
SeqsUpTo(S, n) ==
    IF n = 0 THEN {<<>>}
    ELSE LET T == SeqsUpTo(S, n - 1)
         IN  T \cup {Append(t, x) : t \in {u \in T : Len(u) = n - 1}, x \in S}

\* the data argument of receiveData(): a number, a string or an array
DataInputs ==
    [t : {"number"}, v : DataBytes]
    \cup [t : {"array"}, v : SeqsUpTo(DataBytes, MaxBurst)]
    \cup [t : {"string"}, v : [1..MaxBurst -> DataBytes]]

---------------------------------------------------------------------------
(* State *)

VARIABLES
    bRBR, bTHR, wDL, bIER, bIIR, bLCR, bMCR, bLSR, bMSR,  \* registers
    abReceive,      \* receive queue
    connection,     \* NULL, "peer" (a component with exports) or "mouse"
    sendData,       \* TRUE when the peer's receiveData is bound
    updateStatus,   \* TRUE when the peer's receiveStatus (or mouse callback) is bound
    fNullModem,
    consoleOutput,  \* NULL, or the line buffer of the "console" binding
    irqLine,        \* last request made to the interrupt controller
    op,             \* the operation that ran last
    arg,            \* its argument
    ret,            \* its return value (NULL when it returns nothing)
    irr,            \* the interrupt controller calls it made
    pinsOut,        \* the updateStatus() calls it made on the peer
    sent,           \* the sendData() calls it made on the peer, with the peer's answers
    printed,        \* the lines it printed
    gDLL, gDLM,     \* last bytes written through DLL / DLM (history)
    gUnread,        \* bRBR holds a staged byte no offset-0 read has returned (history)
    controlIOBuffer, \* NULL, or the value of the bound control (its characters)
    iLogicalCol,
    calls,          \* the sinks transmitByte() reached, in the order it reached them
    snapshot,       \* NULL, or the array the last saveRegisters() returned
    snapAliased,    \* TRUE while snapshot[10] is the array object abReceive names
    peer,           \* the serial port at the other end of the machine's connection
    from,           \* the addrFrom the last port handler was called with
    iAdapter,       \* the constructor's 'adapter' parameter
    tabSize,        \* the constructor's 'tabSize' parameter (0 when absent)
    charBOL,        \* the constructor's 'charBOL' parameter (0 when absent)
    portTables      \* the port bases initBus() passed to the bus with the handler tables

regs == <<bRBR, bTHR, wDL, bIER, bIIR, bLCR, bMCR, bLSR, bMSR>>
conn == <<connection, sendData, updateStatus, fNullModem>>
obs == <<op, arg, ret, irr, pinsOut, sent, printed>>
hist == <<gDLL, gDLM, gUnread>>
sink == <<controlIOBuffer, iLogicalCol, calls>>
snap == <<snapshot, snapAliased>>
config == <<iAdapter, tabSize, charBOL>>
vars == <<regs, abReceive, conn, consoleOutput, irqLine, obs, hist, sink, snap, peer,
          from, config, portTables>>

---------------------------------------------------------------------------
(* The constructor's adapter switch *)

COM1_BASE == 1016
COM2_BASE == 760
IRQ_COM1 == 4
IRQ_COM2 == 3

portBase ==
    CASE iAdapter = 1 -> COM1_BASE
      [] iAdapter = 2 -> COM2_BASE
      [] OTHER -> UNDEFINED

nIRQ ==
    CASE iAdapter = 1 -> IRQ_COM1
      [] iAdapter = 2 -> IRQ_COM2
      [] OTHER -> UNDEFINED

\* this['exports'] is assigned at the end of the constructor
exports == iAdapter \in {1, 2}

\* the calls initBus() makes of bus.addPortInputTable() and
\* bus.addPortOutputTable(), with the port base it passes
Registered(base) ==
    <<[table |-> "aPortInput", base |-> base],
      [table |-> "aPortOutput", base |-> base]>>

\* this.chipset is assigned by initBus()
chipset == portTables # <<>>

\* adapter 1 without 'tabSize' and 'charBOL', after initBus()
Adapter1 ==
    /\ from = UNDEFINED
    /\ iAdapter = 1
    /\ tabSize = 0
    /\ charBOL = 0
    /\ portTables = Registered(COM1_BASE)

---------------------------------------------------------------------------
(* initState(): the register defaults of a reset *)

bMSRInit == MSR_CTS + MSR_DSR

initState ==
    /\ bRBR = 0
    /\ bTHR = 0
    /\ wDL = DL_DEFAULT
    /\ bIER = 0
    /\ bIIR = IIR_NO_INT
    /\ bLCR = 0
    /\ bMCR = 0
    /\ bLSR = LSR_THRE + LSR_TSRE
    /\ bMSR = bMSRInit
    /\ abReceive = <<>>

\* a serial port that is not constructed yet ("absent": the registry does
\* not know it).  Constructed and through initBus() it is "ready", after its
\* powerUp() "powered"; its registers are unassigned until then.
PeerAbsent ==
    [stage |-> "absent", connection |-> NULL, sendData |-> FALSE,
     updateStatus |-> FALSE, fNullModem |-> TRUE,
     bRBR |-> UNDEFINED, bIER |-> UNDEFINED, bIIR |-> UNDEFINED,
     bLSR |-> UNDEFINED, bMSR |-> UNDEFINED, abReceive |-> UNDEFINED,
     irr |-> <<>>]

\* the port has no bound control, no snapshot was taken and the machine's
\* connection names no serial port that exists
Unbound ==
    /\ controlIOBuffer = NULL
    /\ iLogicalCol = 0
    /\ calls = <<>>
    /\ snapshot = NULL
    /\ snapAliased = FALSE
    /\ peer = PeerAbsent

Init ==
    /\ initState
    /\ Unbound
    /\ Adapter1
    /\ connection = NULL
    /\ sendData = FALSE
    /\ updateStatus = FALSE
    /\ fNullModem = TRUE
    /\ consoleOutput = NULL
    /\ irqLine = "none"
    /\ op = "powerUp"
    /\ arg = NULL
    /\ ret = NULL
    /\ irr = <<>>
    /\ pinsOut = <<>>
    /\ sent = <<>>
    /\ printed = <<>>
    /\ gDLL = DL_DEFAULT % 256
    /\ gDLM = DL_DEFAULT \div 256
    /\ gUnread = FALSE


---------------------------------------------------------------------------
(* Observations of one operation *)

Observe(o, a, r) ==
    /\ op' = o
    /\ arg' = a
    /\ ret' = r

NoIRR == irr' = <<>> /\ UNCHANGED <<bIIR, irqLine>>

\* the address of the instruction whose I/O the bus dispatches
AddrCPU == 256

\* nothing assigns the constructor's parameters again, and only initBus()
\* registers tables
Static == UNCHANGED <<config, portTables>>

\* a port handler is called with addrFrom (UNDEFINED when the Debugger makes
\* the access) and passes it on to printMessageIO(), its one use.  The call
\* is kept apart from the handler's other effects, so that those can be
\* compared between callers.
printMessageIO(addrFrom) == from' = addrFrom

\* an operation that is no port handler has no addrFrom
Caller(addrFrom) == from' = addrFrom /\ Static

NoPeerCalls == pinsOut' = <<>> /\ sent' = <<>>

DLAB == And(bLCR, LCR_DLAB) # 0

\* transmitByte() is not called
NoTransmit == calls' = <<>> /\ UNCHANGED <<controlIOBuffer, iLogicalCol>>

\* no function of the other serial port is called
NoPeer == peer' = [peer EXCEPT !.irr = <<>>]

\* abReceive is not touched, so neither is the array a snapshot shares with it
NoSnap == UNCHANGED snap

\* the array abReceive named is changed in place (push, shift), or abReceive
\* is assigned a new array (concat) and the snapshot keeps the old one
SnapFollows(reassigned) ==
    IF snapAliased /\ ~reassigned
    THEN /\ snapshot' = [snapshot EXCEPT ![10] = abReceive']
         /\ UNCHANGED snapAliased
    ELSE /\ snapshot' = snapshot
         /\ snapAliased' = FALSE

\* an operation that only works on the registers
Aside == NoTransmit /\ NoPeer /\ NoSnap

---------------------------------------------------------------------------
(* updateIRR() *)

\* mutant: raises the transmit-holding-empty condition as well
IRRCode_WithTHR(lsr, msr, ier) ==
    IF And(lsr, LSR_DR) # 0 /\ And(ier, IER_RBR_AVAIL) # 0
    THEN IIR_INT_RBR
    ELSE IF And(lsr, LSR_THRE) # 0 /\ And(ier, IER_THR_EMPTY) # 0
         THEN IIR_INT_THR
         ELSE IF And(msr, MSR_DCTS + MSR_DDSR) # 0 /\ And(ier, IER_MSR_DELTA) # 0
              THEN IIR_INT_MSR
              ELSE -1

\* mutant: checks the modem-status condition before the receive condition
IRRCode_MsrFirst(lsr, msr, ier) ==
    IF And(msr, MSR_DCTS + MSR_DDSR) # 0 /\ And(ier, IER_MSR_DELTA) # 0
    THEN IIR_INT_MSR
    ELSE IF And(lsr, LSR_DR) # 0 /\ And(ier, IER_RBR_AVAIL) # 0
         THEN IIR_INT_RBR
         ELSE -1

\* the local bIIR of updateIRR(): the matched condition's code, or -1
IRRCode(lsr, msr, ier) ==
    IF And(lsr, LSR_DR) # 0 /\ And(ier, IER_RBR_AVAIL) # 0
    THEN IIR_INT_RBR
    ELSE IF And(msr, MSR_DCTS + MSR_DDSR) # 0 /\ And(ier, IER_MSR_DELTA) # 0
         THEN IIR_INT_MSR
         ELSE -1

\* mutant: leaves the no-interrupt bit set when a condition matched
IRRValue_KeepsNoInt(iir, code) ==
    IF code >= 0
    THEN Or(AndNot(iir, IIR_INT_BITS), code)
    ELSE Or(iir, IIR_NO_INT)

\* the new IIR for a matched code (code >= 0) or for no match
IRRValue(iir, code) ==
    IF code >= 0
    THEN Or(AndNot(iir, IIR_NO_INT + IIR_INT_BITS), code)
    ELSE Or(iir, IIR_NO_INT)

\* the interrupt controller call
IRRCall(code) == IF code >= 0 THEN "setIRR" ELSE "clearIRR"

\* the call is made when chipset and nIRQ are set
updateIRR(lsr, msr, ier) ==
    LET code == IRRCode(lsr, msr, ier)
    IN  /\ bIIR' = IRRValue(bIIR, code)
        /\ IF chipset /\ nIRQ # UNDEFINED
           THEN /\ irr' = <<IRRCall(code)>>
                /\ irqLine' = IRRCall(code)
           ELSE /\ irr' = <<>>
                /\ UNCHANGED irqLine

---------------------------------------------------------------------------
(* advanceRBR(): q and lsr are abReceive and bLSR as the caller left them *)

\* mutant: stages the head of the queue even while DR is set
advanceRBR_IgnoresDR(q, lsr) ==
    /\ IF Len(q) > 0
       THEN /\ bRBR' = Head(q)
            /\ abReceive' = Tail(q)
            /\ bLSR' = Or(lsr, LSR_DR)
       ELSE /\ bRBR' = bRBR
            /\ abReceive' = q
            /\ bLSR' = lsr
    /\ updateIRR(bLSR', bMSR, bIER)

advanceRBR(q, lsr) ==
    /\ IF Len(q) > 0 /\ And(lsr, LSR_DR) = 0
       THEN /\ bRBR' = Head(q)
            /\ abReceive' = Tail(q)
            /\ bLSR' = Or(lsr, LSR_DR)
       ELSE /\ bRBR' = bRBR
            /\ abReceive' = q
            /\ bLSR' = lsr
    /\ updateIRR(bLSR', bMSR, bIER)

---------------------------------------------------------------------------
(* receiveData(data), receiveStatus(pins) *)

RECURSIVE PushAll(_, _)
PushAll(q, s) == IF s = <<>> THEN q ELSE PushAll(Append(q, Head(s)), Tail(s))

\* the bytes of a data argument
Bytes(data) == IF data.t = "number" THEN <<data.v>> ELSE data.v

\* abReceive after the pushes of receiveData()
Received(q, data) ==
    CASE data.t = "number" -> Append(q, data.v)
      [] data.t = "string" -> PushAll(q, data.v)
      [] OTHER -> q \o data.v

receiveData(data) ==
    /\ Len(Received(abReceive, data)) <= MaxQueue
    /\ advanceRBR(Received(abReceive, data), bLSR)
    /\ gUnread' = (gUnread \/ abReceive' # Received(abReceive, data))
    /\ Observe("receiveData", Bytes(data), TRUE)
    /\ Caller(UNDEFINED)
    /\ NoPeerCalls
    /\ NoTransmit
    /\ NoPeer
    /\ SnapFollows(data.t = "array")
    /\ printed' = <<>>
    /\ UNCHANGED <<bTHR, wDL, bIER, bLCR, bMCR, bMSR, conn, consoleOutput, gDLL, gDLM>>

\* bMSR after receiveStatus(pins)
StatusMSR(msr, pins) ==
    LET m0 == AndNot(msr, MSR_CTS + MSR_DSR)
        m1 == IF And(pins, RS232_CTS) # 0 THEN Or(m0, MSR_CTS + MSR_DCTS) ELSE m0
    IN  IF And(pins, RS232_DSR) # 0 THEN Or(m1, MSR_DSR + MSR_DDSR) ELSE m1

receiveStatus(pins) ==
    /\ bMSR' = StatusMSR(bMSR, pins)
    /\ IF bMSR # bMSR' THEN updateIRR(bLSR, bMSR', bIER) ELSE NoIRR
    /\ Observe("receiveStatus", pins, NULL)
    /\ Caller(UNDEFINED)
    /\ NoPeerCalls
    /\ Aside
    /\ printed' = <<>>
    /\ UNCHANGED <<bRBR, bTHR, wDL, bIER, bLCR, bMCR, bLSR, abReceive, conn,
                   consoleOutput, hist>>

---------------------------------------------------------------------------
(* The same functions running on the other serial port: p is its state     *)
(* before the call, the value is its state after it.                       *)

PeerUpdateIRR(p) ==
    LET code == IRRCode(p.bLSR, p.bMSR, p.bIER)
    IN  [p EXCEPT !.bIIR = IRRValue(p.bIIR, code), !.irr = <<IRRCall(code)>>]

PeerAdvanceRBR(p) ==
    IF Len(p.abReceive) > 0 /\ And(p.bLSR, LSR_DR) = 0
    THEN PeerUpdateIRR([p EXCEPT !.bRBR = Head(p.abReceive),
                                 !.abReceive = Tail(p.abReceive),
                                 !.bLSR = Or(p.bLSR, LSR_DR)])
    ELSE PeerUpdateIRR(p)

\* mutant: the byte is queued but advanceRBR() is not called
PeerReceiveData_NoAdvance(p, b) ==
    [p EXCEPT !.abReceive = Append(p.abReceive, b), !.irr = <<>>]

\* receiveData(b) with a number
PeerReceiveData(p, b) ==
    PeerAdvanceRBR([p EXCEPT !.abReceive = Append(p.abReceive, b), !.irr = <<>>])

PeerReceiveStatus(p, pins) ==
    LET q == [p EXCEPT !.bMSR = StatusMSR(p.bMSR, pins), !.irr = <<>>]
    IN  IF q.bMSR # p.bMSR THEN PeerUpdateIRR(q) ELSE q

\* the exported connect(fNull), called by this port from inside its own
\* initConnection(): the other port finds this port in the registry, and its
\* call of this port's connect() returns at once (this.connection is set)
\* mutant: the port takes the opposite of the caller's null-modem setting
PeerConnect_Crossed(p, fNull) ==
    IF p.connection # NULL
    THEN [p EXCEPT !.irr = <<>>]
    ELSE [p EXCEPT !.connection = "serial", !.sendData = TRUE,
                   !.fNullModem = ~fNull, !.updateStatus = TRUE, !.irr = <<>>]

PeerConnect(p, fNull) ==
    IF p.connection # NULL
    THEN [p EXCEPT !.irr = <<>>]
    ELSE [p EXCEPT !.connection = "serial", !.sendData = TRUE,
                   !.fNullModem = fNull, !.updateStatus = TRUE, !.irr = <<>>]

---------------------------------------------------------------------------
(* Port input handlers *)

\* mutant: a read by the Debugger returns the byte and leaves it staged
inRBR_DebuggerPeeks(addrFrom) ==
    /\ IF addrFrom = UNDEFINED
       THEN NoIRR /\ UNCHANGED <<bRBR, bLSR, abReceive, gUnread, snap>>
       ELSE /\ advanceRBR(abReceive, AndNot(bLSR, LSR_DR))
            /\ gUnread' = IF abReceive' # abReceive THEN TRUE
                          ELSE IF DLAB THEN gUnread ELSE FALSE
            /\ SnapFollows(FALSE)
    /\ Observe("inRBR", NULL, IF DLAB THEN And(wDL, 255) ELSE bRBR)
    /\ Static
    /\ NoPeerCalls
    /\ NoTransmit
    /\ NoPeer
    /\ printed' = <<>>
    /\ UNCHANGED <<bTHR, wDL, bIER, bLCR, bMCR, bMSR, conn, consoleOutput, gDLL, gDLM>>

\* mutant: clears DR and leaves the queue as it is
inRBR_NoAdvance(addrFrom) ==
    /\ bLSR' = AndNot(bLSR, LSR_DR)
    /\ updateIRR(bLSR', bMSR, bIER)
    /\ gUnread' = IF DLAB THEN gUnread ELSE FALSE
    /\ Observe("inRBR", NULL, IF DLAB THEN And(wDL, 255) ELSE bRBR)
    /\ Static
    /\ NoPeerCalls
    /\ NoTransmit
    /\ NoPeer
    /\ SnapFollows(FALSE)
    /\ printed' = <<>>
    /\ UNCHANGED <<bRBR, bTHR, wDL, bIER, bLCR, bMCR, bMSR, abReceive, conn,
                   consoleOutput, gDLL, gDLM>>

\* mutant: a read made while DLAB is set leaves the receiver alone
inRBR_DLABKeepsDR(addrFrom) ==
    /\ IF DLAB
       THEN NoIRR /\ UNCHANGED <<bRBR, bLSR, abReceive, gUnread, snap>>
       ELSE /\ advanceRBR(abReceive, AndNot(bLSR, LSR_DR))
            /\ gUnread' = (abReceive' # abReceive)
            /\ SnapFollows(FALSE)
    /\ Observe("inRBR", NULL, IF DLAB THEN And(wDL, 255) ELSE bRBR)
    /\ Static
    /\ NoPeerCalls
    /\ NoTransmit
    /\ NoPeer
    /\ printed' = <<>>
    /\ UNCHANGED <<bTHR, wDL, bIER, bLCR, bMCR, bMSR, conn, consoleOutput, gDLL, gDLM>>

inRBR(addrFrom) ==
    /\ advanceRBR(abReceive, AndNot(bLSR, LSR_DR))
    /\ gUnread' = IF abReceive' # abReceive THEN TRUE
                  ELSE IF DLAB THEN gUnread ELSE FALSE
    /\ Observe("inRBR", NULL, IF DLAB THEN And(wDL, 255) ELSE bRBR)
    /\ Static
    /\ NoPeerCalls
    /\ NoTransmit
    /\ NoPeer
    /\ SnapFollows(FALSE)
    /\ printed' = <<>>
    /\ UNCHANGED <<bTHR, wDL, bIER, bLCR, bMCR, bMSR, conn, consoleOutput, gDLL, gDLM>>

\* a handler that only returns a value
PureRead(o, b, addrFrom) ==
    /\ Observe(o, NULL, b)
    /\ Static
    /\ NoIRR
    /\ Aside
    /\ NoPeerCalls
    /\ printed' = <<>>
    /\ UNCHANGED <<bRBR, bTHR, wDL, bIER, bLCR, bMCR, bLSR, bMSR, abReceive, conn,
                   consoleOutput, hist>>

\* mutant: returns the low byte of the divisor latch under DLAB
inIER_LowByte(addrFrom) == PureRead("inIER", IF DLAB THEN And(wDL, 255) ELSE bIER, addrFrom)

inIER(addrFrom) == PureRead("inIER", IF DLAB THEN Shr(wDL, 8) ELSE bIER, addrFrom)

inIIR(addrFrom) == PureRead("inIIR", bIIR, addrFrom)

inLCR(addrFrom) == PureRead("inLCR", bLCR, addrFrom)

inMCR(addrFrom) == PureRead("inMCR", bMCR, addrFrom)

\* mutant: reading LSR clears DR
inLSR_ClearsDR(addrFrom) ==
    /\ bLSR' = AndNot(bLSR, LSR_DR)
    /\ Observe("inLSR", NULL, bLSR)
    /\ Static
    /\ NoIRR
    /\ Aside
    /\ NoPeerCalls
    /\ printed' = <<>>
    /\ UNCHANGED <<bRBR, bTHR, wDL, bIER, bLCR, bMCR, bMSR, abReceive, conn,
                   consoleOutput, hist>>

inLSR(addrFrom) == PureRead("inLSR", bLSR, addrFrom)

\* mutant: clears delta-CTS only
inMSR_ClearsDCTSOnly(addrFrom) ==
    /\ bMSR' = AndNot(bMSR, MSR_DCTS)
    /\ Observe("inMSR", NULL, bMSR)
    /\ Static
    /\ NoIRR
    /\ Aside
    /\ NoPeerCalls
    /\ printed' = <<>>
    /\ UNCHANGED <<bRBR, bTHR, wDL, bIER, bLCR, bMCR, bLSR, abReceive, conn,
                   consoleOutput, hist>>

inMSR(addrFrom) ==
    /\ bMSR' = AndNot(bMSR, MSR_DCTS + MSR_DDSR)
    /\ Observe("inMSR", NULL, bMSR)
    /\ Static
    /\ NoIRR
    /\ Aside
    /\ NoPeerCalls
    /\ printed' = <<>>
    /\ UNCHANGED <<bRBR, bTHR, wDL, bIER, bLCR, bMCR, bLSR, abReceive, conn,
                   consoleOutput, hist>>

---------------------------------------------------------------------------
(* transmitByte(b): accepted is what the peer's receiveData returns.       *)

CONSOLE_MAX == 1024

\* str.toASCIICode(b) of a printable character: the character itself
toASCIICode(b) == <<b>>

\* what str.toASCIICode(b) may return: for a control code nothing, the
\* character itself or a longer mnemonic in angle brackets
ASCIICodes(b) ==
    IF b >= 32 THEN {toASCIICode(b)} ELSE {<<>>, <<b>>, <<60, b, 62>>}

\* str.pad("", n): n spaces
pad(n) == SubSeq([i \in 1..n |-> 32], 1, n)

\* this.tabSize || 8
TabStop == IF tabSize # 0 THEN tabSize ELSE 8

\* mutant: a refusal by the peer makes the result false whatever the local sink
Transmitted_PeerDecides(accepted) ==
    IF sendData THEN accepted
    ELSE controlIOBuffer # NULL \/ consoleOutput # NULL

\* fTransmitted
Transmitted(accepted) ==
    (sendData /\ accepted) \/ controlIOBuffer # NULL \/ consoleOutput # NULL

\* consoleOutput is the sink: no control is bound
Console == controlIOBuffer = NULL /\ consoleOutput # NULL

\* mutant: flushes only once the line is longer than the threshold
Flushes_Above(b) == Console /\ (b = 10 \/ Len(consoleOutput) > CONSOLE_MAX)

\* consoleOutput is flushed before b is appended
Flushes(b) == Console /\ (b = 10 \/ Len(consoleOutput) >= CONSOLE_MAX)

\* mutant: appends the linefeed to the emptied line
Logged_KeepsLF(b) ==
    LET line == IF Flushes(b) THEN <<>> ELSE consoleOutput
    IN  Append(line, b)

\* consoleOutput after b
Logged(b) ==
    LET line == IF Flushes(b) THEN <<>> ELSE consoleOutput
    IN  IF b # 10 THEN Append(line, b) ELSE line

\* mutant: a tab always advances by the full tab size
nChars_FullTab(b, s) ==
    IF b = 9 THEN TabStop
    ELSE IF b < 32 /\ Len(s) = 1 THEN 0 ELSE Len(s)

\* nChars: the columns b takes, s being str.toASCIICode(b)
nChars(b, s) ==
    IF b = 9 THEN TabStop - (iLogicalCol % TabStop)
    ELSE IF b < 32 /\ Len(s) = 1 THEN 0 ELSE Len(s)

\* mutant: the beginning-of-line character goes before every string
EchoText_EveryBOL(b, s) ==
    LET t == IF b = 9 /\ tabSize # 0 THEN pad(nChars(b, s)) ELSE s
    IN  IF charBOL # 0 THEN <<charBOL>> \o t ELSE t

\* s as it is appended to controlIOBuffer.value
EchoText(b, s) ==
    LET t == IF b = 9 /\ tabSize # 0 THEN pad(nChars(b, s)) ELSE s
    IN  IF charBOL # 0 /\ iLogicalCol = 0 /\ nChars(b, s) # 0
        THEN <<charBOL>> \o t
        ELSE t

\* controlIOBuffer.value after b
Echoed(b, s) ==
    CASE b = 13 -> controlIOBuffer
      [] b = 8 -> SubSeq(controlIOBuffer, 1, Len(controlIOBuffer) - 1)
      [] OTHER -> controlIOBuffer \o EchoText(b, s)

\* iLogicalCol after b
EchoedCol(b, s) ==
    CASE b = 13 -> 0
      [] b = 8 -> IF iLogicalCol > 0 THEN iLogicalCol - 1 ELSE iLogicalCol
      [] OTHER -> iLogicalCol + nChars(b, s)

transmitByte(b, accepted) ==
    /\ sent' = IF sendData THEN <<[b |-> b, ok |-> accepted]>> ELSE <<>>
    /\ calls' = (IF sendData THEN <<"sendData">> ELSE <<>>)
                 \o (IF controlIOBuffer # NULL THEN <<"controlIOBuffer">>
                     ELSE IF consoleOutput # NULL THEN <<"consoleOutput">>
                     ELSE <<>>)
    /\ IF controlIOBuffer # NULL
       THEN \E s \in ASCIICodes(b) :
               /\ controlIOBuffer' = Echoed(b, s)
               /\ iLogicalCol' = EchoedCol(b, s)
       ELSE UNCHANGED <<controlIOBuffer, iLogicalCol>>
    /\ printed' = IF Flushes(b) THEN <<consoleOutput>> ELSE <<>>
    /\ consoleOutput' = IF Console THEN Logged(b) ELSE consoleOutput
    /\ peer' = IF sendData /\ connection = "serial"
               THEN PeerReceiveData(peer, b)
               ELSE [peer EXCEPT !.irr = <<>>]

\* the explored sinks stay within MaxLine characters or, for the console,
\* within MaxLine characters of the flush threshold; a bound control is
\* given printable characters, CR, BS and, up to column MaxCol, tabs
SinkBound(b) ==
    IF controlIOBuffer # NULL
    THEN \/ b \in {8, 13}
         \/ b >= 32 /\ Len(controlIOBuffer) < MaxLine /\ iLogicalCol < MaxLine
         \/ b = 9 /\ Len(controlIOBuffer) < MaxCol /\ iLogicalCol < MaxCol
    ELSE \/ consoleOutput = NULL
         \/ b = 10
         \/ Len(consoleOutput) < MaxLine
         \/ Len(consoleOutput) >= CONSOLE_MAX - MaxLine

\* the other serial port's receiveData() always returns true; it runs on a
\* port that has powered up, and its queue is explored up to MaxQueue
PeerAnswers(accepted) ==
    (sendData /\ connection = "serial") =>
        /\ accepted
        /\ peer.stage = "powered"
        /\ Len(peer.abReceive) < MaxQueue

---------------------------------------------------------------------------
(* Port output handlers *)

\* mutant: leaves THRE and TSRE as they were when the byte is not accepted
outTHR_KeepsTHRE(b, accepted, addrFrom) ==
    /\ IF DLAB
       THEN /\ wDL' = Or(AndNot(wDL, 255), b)
            /\ gDLL' = b
            /\ sent' = <<>>
            /\ printed' = <<>>
            /\ NoTransmit
            /\ NoPeer
            /\ UNCHANGED <<bTHR, bLSR, consoleOutput>>
       ELSE /\ SinkBound(b)
            /\ PeerAnswers(accepted)
            /\ bTHR' = b
            /\ transmitByte(b, accepted)
            /\ bLSR' = IF Transmitted(accepted)
                       THEN Or(bLSR, LSR_THRE + LSR_TSRE)
                       ELSE bLSR
            /\ UNCHANGED <<wDL, gDLL>>
    /\ Observe("outTHR", b, NULL)
    /\ Static
    /\ NoIRR
    /\ NoSnap
    /\ pinsOut' = <<>>
    /\ UNCHANGED <<bRBR, bIER, bLCR, bMCR, bMSR, abReceive, conn, gDLM, gUnread>>

outTHR(b, accepted, addrFrom) ==
    /\ IF DLAB
       THEN /\ wDL' = Or(AndNot(wDL, 255), b)
            /\ gDLL' = b
            /\ sent' = <<>>
            /\ printed' = <<>>
            /\ NoTransmit
            /\ NoPeer
            /\ UNCHANGED <<bTHR, bLSR, consoleOutput>>
       ELSE /\ SinkBound(b)
            /\ PeerAnswers(accepted)
            /\ bTHR' = b
            /\ transmitByte(b, accepted)
            /\ bLSR' = IF Transmitted(accepted)
                       THEN Or(AndNot(bLSR, LSR_THRE + LSR_TSRE), LSR_THRE + LSR_TSRE)
                       ELSE AndNot(bLSR, LSR_THRE + LSR_TSRE)
            /\ UNCHANGED <<wDL, gDLL>>
    /\ Observe("outTHR", b, NULL)
    /\ Static
    /\ NoIRR
    /\ NoSnap
    /\ pinsOut' = <<>>
    /\ UNCHANGED <<bRBR, bIER, bLCR, bMCR, bMSR, abReceive, conn, gDLM, gUnread>>

\* mutant: ORs the new high byte into the divisor latch without masking the old one
outIER_NoMask(b, addrFrom) ==
    /\ IF DLAB
       THEN /\ wDL' = Or(wDL, Shl(b, 8))
            /\ gDLM' = b
            /\ UNCHANGED bIER
       ELSE /\ bIER' = b
            /\ UNCHANGED <<wDL, gDLM>>
    /\ Observe("outIER", b, NULL)
    /\ Static
    /\ NoIRR
    /\ Aside
    /\ NoPeerCalls
    /\ printed' = <<>>
    /\ UNCHANGED <<bRBR, bTHR, bLCR, bMCR, bLSR, bMSR, abReceive, conn,
                   consoleOutput, gDLL, gUnread>>

outIER(b, addrFrom) ==
    /\ IF DLAB
       THEN /\ wDL' = Or(And(wDL, 255), Shl(b, 8))
            /\ gDLM' = b
            /\ UNCHANGED bIER
       ELSE /\ bIER' = b
            /\ UNCHANGED <<wDL, gDLM>>
    /\ Observe("outIER", b, NULL)
    /\ Static
    /\ NoIRR
    /\ Aside
    /\ NoPeerCalls
    /\ printed' = <<>>
    /\ UNCHANGED <<bRBR, bTHR, bLCR, bMCR, bLSR, bMSR, abReceive, conn,
                   consoleOutput, gDLL, gUnread>>

outLCR(b, addrFrom) ==
    /\ bLCR' = b
    /\ Observe("outLCR", b, NULL)
    /\ Static
    /\ NoIRR
    /\ Aside
    /\ NoPeerCalls
    /\ printed' = <<>>
    /\ UNCHANGED <<bRBR, bTHR, wDL, bIER, bMCR, bLSR, bMSR, abReceive, conn,
                   consoleOutput, hist>>

\* mutant: a null-modem DTR raises DSR but not CD
MCRPins_NoCD(b, fNull) ==
    IF fNull
    THEN Or(IF And(b, MCR_RTS) # 0 THEN RS232_CTS ELSE 0,
            IF And(b, MCR_DTR) # 0 THEN RS232_DSR ELSE 0)
    ELSE Or(IF And(b, MCR_RTS) # 0 THEN RS232_RTS ELSE 0,
            IF And(b, MCR_DTR) # 0 THEN RS232_DTR ELSE 0)

\* the pins outMCR() passes to updateStatus()
MCRPins(b, fNull) ==
    IF fNull
    THEN Or(IF And(b, MCR_RTS) # 0 THEN RS232_CTS ELSE 0,
            IF And(b, MCR_DTR) # 0 THEN Or(RS232_DSR, RS232_CD) ELSE 0)
    ELSE Or(IF And(b, MCR_RTS) # 0 THEN RS232_RTS ELSE 0,
            IF And(b, MCR_DTR) # 0 THEN RS232_DTR ELSE 0)

\* mutant: any changed bit of MCR makes outMCR() notify the peer
Notifies_AnyChange(b) == Xor(b, bMCR) # 0 /\ updateStatus

\* outMCR() calls updateStatus(): DTR or RTS changes and the function is bound
Notifies(b) == And(Xor(b, bMCR), MCR_DTR + MCR_RTS) # 0 /\ updateStatus

outMCR(b, addrFrom) ==
    /\ bMCR' = b
    /\ pinsOut' = IF Notifies(b)
                  THEN <<MCRPins(b, fNullModem)>>
                  ELSE <<>>
    /\ sent' = <<>>
    /\ peer' = IF pinsOut' # <<>> /\ connection = "serial"
               THEN PeerReceiveStatus(peer, pinsOut'[1])
               ELSE [peer EXCEPT !.irr = <<>>]
    /\ (pinsOut' # <<>> /\ connection = "serial") => peer.stage = "powered"
    /\ Observe("outMCR", b, NULL)
    /\ Static
    /\ NoIRR
    /\ NoTransmit
    /\ NoSnap
    /\ printed' = <<>>
    /\ UNCHANGED <<bRBR, bTHR, wDL, bIER, bLCR, bLSR, bMSR, abReceive, conn,
                   consoleOutput, hist>>

---------------------------------------------------------------------------
(* Connections.  The machine's "connection" parameter and the component    *)
(* registry are the environment: target is what the lookup yields.         *)

Targets == {"none", "missing", "noExports", "dataOnly", "full"}

\* the value of this.connection after Component.getComponentByID()
Found(target) == IF target = "missing" THEN NULL ELSE target

\* mutant: resolves again although the port has a connection
Bind_Again(fNull, target) ==
    IF target = "none"
    THEN UNCHANGED conn
    ELSE /\ connection' = Found(target)
         /\ sendData' = (target \in {"dataOnly", "full", "serial"})
         /\ IF target \in {"dataOnly", "full", "serial"}
            THEN /\ fNullModem' = fNull
                 /\ updateStatus' = (target \in {"full", "serial"})
            ELSE UNCHANGED <<fNullModem, updateStatus>>

\* what initConnection(fNull) assigns to this port.  "serial" is the other
\* serial port, which exports connect, receiveData and receiveStatus.
Bind(fNull, target) ==
    IF connection # NULL \/ target = "none"
    THEN UNCHANGED conn
    ELSE /\ connection' = Found(target)
         /\ sendData' = (target \in {"dataOnly", "full", "serial"})
         /\ IF target \in {"dataOnly", "full", "serial"}
            THEN /\ fNullModem' = fNull
                 /\ updateStatus' = (target \in {"full", "serial"})
            ELSE UNCHANGED <<fNullModem, updateStatus>>

\* initConnection(fNull): before it binds the two functions this port calls
\* the target's connect() with its own fNullModem
Resolve(fNull, target) ==
    /\ Bind(fNull, target)
    /\ peer' = IF connection = NULL /\ target = "serial"
               THEN PeerConnect(peer, fNullModem)
               ELSE [peer EXCEPT !.irr = <<>>]

initConnection(fNull, target) ==
    /\ Resolve(fNull, target)
    /\ Observe("initConnection", <<fNull, target>>, NULL)
    /\ Caller(UNDEFINED)
    /\ NoIRR
    /\ NoTransmit
    /\ NoSnap
    /\ NoPeerCalls
    /\ printed' = <<>>
    /\ UNCHANGED <<bRBR, bTHR, wDL, bIER, bLCR, bMCR, bLSR, bMSR, abReceive,
                   consoleOutput, hist>>

\* mutant: attaches the mouse even when the port has a connection
attachMouse_Replaces(idMatches) ==
    /\ IF idMatches
       THEN /\ connection' = "mouse"
            /\ updateStatus' = TRUE
            /\ fNullModem' = FALSE
            /\ UNCHANGED sendData
            /\ ret' = "this"
       ELSE /\ UNCHANGED conn
            /\ ret' = NULL
    /\ op' = "attachMouse"
    /\ arg' = idMatches
    /\ Caller(UNDEFINED)
    /\ NoIRR
    /\ Aside
    /\ NoPeerCalls
    /\ printed' = <<>>
    /\ UNCHANGED <<bRBR, bTHR, wDL, bIER, bLCR, bMCR, bLSR, bMSR, abReceive,
                   consoleOutput, hist>>

\* mutant: attaches the mouse whatever the id
attachMouse_AnyId(idMatches) ==
    /\ IF connection = NULL
       THEN /\ connection' = "mouse"
            /\ updateStatus' = TRUE
            /\ fNullModem' = FALSE
            /\ UNCHANGED sendData
            /\ ret' = "this"
       ELSE /\ UNCHANGED conn
            /\ ret' = NULL
    /\ op' = "attachMouse"
    /\ arg' = idMatches
    /\ Caller(UNDEFINED)
    /\ NoIRR
    /\ Aside
    /\ NoPeerCalls
    /\ printed' = <<>>
    /\ UNCHANGED <<bRBR, bTHR, wDL, bIER, bLCR, bMCR, bLSR, bMSR, abReceive,
                   consoleOutput, hist>>

attachMouse(idMatches) ==
    /\ IF idMatches /\ connection = NULL
       THEN /\ connection' = "mouse"
            /\ updateStatus' = TRUE
            /\ fNullModem' = FALSE
            /\ UNCHANGED sendData
            /\ ret' = "this"
       ELSE /\ UNCHANGED conn
            /\ ret' = NULL
    /\ op' = "attachMouse"
    /\ arg' = idMatches
    /\ Caller(UNDEFINED)
    /\ NoIRR
    /\ Aside
    /\ NoPeerCalls
    /\ printed' = <<>>
    /\ UNCHANGED <<bRBR, bTHR, wDL, bIER, bLCR, bMCR, bLSR, bMSR, abReceive,
                   consoleOutput, hist>>

---------------------------------------------------------------------------
(* The other serial port at work.  Its machine's connection parameter      *)
(* names this port, and this port is in the registry.                      *)

\* what an operation of the other port leaves of this port's registers
PeerActs ==
    /\ NoIRR
    /\ NoPeerCalls
    /\ printed' = <<>>
    /\ NoTransmit
    /\ NoSnap
    /\ UNCHANGED <<bRBR, bTHR, wDL, bIER, bLCR, bMCR, bLSR, bMSR, abReceive,
                   consoleOutput, hist>>

\* the constructor and initBus() of the other port
peerInitBus ==
    /\ peer.stage = "absent"
    /\ peer' = [peer EXCEPT !.stage = "ready", !.irr = <<>>]
    /\ Observe("peerInitBus", NULL, NULL)
    /\ Caller(UNDEFINED)
    /\ PeerActs
    /\ UNCHANGED conn

\* mutant: the other port's initConnection() does not call this port's connect()
peerPowerUp_NoCallback ==
    /\ peer.stage # "absent"
    /\ UNCHANGED conn
    /\ peer' = [PeerConnect(peer, peer.fNullModem) EXCEPT
                  !.stage = "powered",
                  !.bRBR = 0,
                  !.bIER = 0,
                  !.bIIR = IIR_NO_INT,
                  !.bLSR = LSR_THRE + LSR_TSRE,
                  !.bMSR = bMSRInit,
                  !.abReceive = <<>>]
    /\ Observe("peerPowerUp", NULL, TRUE)
    /\ Caller(UNDEFINED)
    /\ PeerActs

\* powerUp(null, false) of the other port: its initConnection() finds this
\* port and calls this port's connect() with its own fNullModem (the call
\* this port makes back returns at once), then its reset() runs
peerPowerUp ==
    /\ peer.stage # "absent"
    /\ IF peer.connection = NULL
       THEN Bind(peer.fNullModem, "serial")
       ELSE UNCHANGED conn
    /\ peer' = [PeerConnect(peer, peer.fNullModem) EXCEPT
                  !.stage = "powered",
                  !.bRBR = 0,
                  !.bIER = 0,
                  !.bIIR = IIR_NO_INT,
                  !.bLSR = LSR_THRE + LSR_TSRE,
                  !.bMSR = bMSRInit,
                  !.abReceive = <<>>]
    /\ Observe("peerPowerUp", NULL, TRUE)
    /\ Caller(UNDEFINED)
    /\ PeerActs

\* a read of offset 0 of the other port (its DLAB is clear)
peerInRBR ==
    /\ peer.stage = "powered"
    /\ peer' = PeerAdvanceRBR([peer EXCEPT !.bLSR = AndNot(peer.bLSR, LSR_DR),
                                           !.irr = <<>>])
    /\ Observe("peerInRBR", NULL, peer.bRBR)
    /\ Caller(UNDEFINED)
    /\ PeerActs
    /\ UNCHANGED conn

\* a write to offset 1 of the other port (its DLAB is clear)
peerOutIER(b) ==
    /\ peer.stage = "powered"
    /\ peer' = [peer EXCEPT !.bIER = b, !.irr = <<>>]
    /\ Observe("peerOutIER", b, NULL)
    /\ Caller(UNDEFINED)
    /\ PeerActs
    /\ UNCHANGED conn

---------------------------------------------------------------------------
(* reset(), save(), restore(data), powerUp(data, fRepower).  The State      *)
(* object of save() is the one-element array data with data[0] the array   *)
(* of saveRegisters(); sequences count from 1.                             *)

\* the array saveRegisters() returns
saveRegisters ==
    <<bRBR, bTHR, wDL, bIER, bIIR, bLCR, bMCR, bLSR, bMSR, abReceive>>

\* mutant: the reset leaves the transmitter shift register busy
DefaultState_NoTSRE ==
    <<0, 0, DL_DEFAULT, 0, IIR_NO_INT, 0, 0, LSR_THRE, bMSRInit, <<>>>>

\* the array initState() builds when it is called without data
DefaultState ==
    <<0, 0, DL_DEFAULT, 0, IIR_NO_INT, 0, 0, LSR_THRE + LSR_TSRE, bMSRInit, <<>>>>

\* mutant: the receive queue is not taken from the data
initStateFrom_KeepsQueue(data) ==
    /\ bRBR' = data[1]
    /\ bTHR' = data[2]
    /\ wDL' = data[3]
    /\ bIER' = data[4]
    /\ bIIR' = data[5]
    /\ bLCR' = data[6]
    /\ bMCR' = data[7]
    /\ bLSR' = data[8]
    /\ bMSR' = data[9]
    /\ abReceive' = abReceive

\* the assignments of initState(data): no length is looked at, no function
\* is called, and the function returns true
initStateFrom(data) ==
    /\ bRBR' = data[1]
    /\ bTHR' = data[2]
    /\ wDL' = data[3]
    /\ bIER' = data[4]
    /\ bIIR' = data[5]
    /\ bLCR' = data[6]
    /\ bMCR' = data[7]
    /\ bLSR' = data[8]
    /\ bMSR' = data[9]
    /\ abReceive' = data[10]

\* what a load of the registers leaves behind: the interrupt controller is
\* not called, and the histories restart from the loaded registers
Loaded ==
    /\ irr' = <<>>
    /\ UNCHANGED irqLine
    /\ gDLL' = wDL' % 256
    /\ gDLM' = wDL' \div 256
    /\ gUnread' = (And(bLSR', LSR_DR) # 0)
    /\ snapshot' = snapshot
    /\ snapAliased' = (snapshot # NULL /\ saveRegisters' = snapshot)

\* the State data a host can hand back: the last one saved, or that one with
\* an eleventh element in its register array
Snapshots ==
    IF snapshot = NULL THEN {} ELSE {<<snapshot>>, <<Append(snapshot, 0)>>}

reset ==
    /\ initStateFrom(DefaultState)
    /\ Loaded
    /\ Observe("reset", NULL, NULL)
    /\ Caller(UNDEFINED)
    /\ NoPeerCalls
    /\ printed' = <<>>
    /\ NoTransmit
    /\ NoPeer
    /\ UNCHANGED <<conn, consoleOutput>>

save ==
    /\ snapshot' = saveRegisters
    /\ snapAliased' = TRUE
    /\ Observe("save", NULL, <<saveRegisters>>)
    /\ Caller(UNDEFINED)
    /\ NoIRR
    /\ NoPeerCalls
    /\ printed' = <<>>
    /\ NoTransmit
    /\ NoPeer
    /\ UNCHANGED <<bRBR, bTHR, wDL, bIER, bLCR, bMCR, bLSR, bMSR, abReceive, conn,
                   consoleOutput, hist>>

restore(data) ==
    /\ initStateFrom(data[1])
    /\ Loaded
    /\ Observe("restore", data, TRUE)
    /\ Caller(UNDEFINED)
    /\ NoPeerCalls
    /\ printed' = <<>>
    /\ NoTransmit
    /\ NoPeer
    /\ UNCHANGED <<conn, consoleOutput>>

\* powerUp()'s data when the machine has no saved state (null)
NoData == <<>>

\* data is NoData or State data; target is what the registry lookup of
\* initConnection() yields
powerUp(data, fRepower, target) ==
    /\ IF fRepower
       THEN /\ NoIRR
            /\ NoPeer
            /\ NoSnap
            /\ UNCHANGED <<bRBR, bTHR, wDL, bIER, bLCR, bMCR, bLSR, bMSR, abReceive,
                           conn, hist>>
       ELSE /\ Resolve(fNullModem, target)
            /\ initStateFrom(IF data = NoData THEN DefaultState ELSE data[1])
            /\ Loaded
    /\ Observe("powerUp", <<data, fRepower>>, TRUE)
    /\ Caller(UNDEFINED)
    /\ NoPeerCalls
    /\ printed' = <<>>
    /\ NoTransmit
    /\ UNCHANGED consoleOutput

---------------------------------------------------------------------------

(* The receive path and the interrupt arbiter, as the bus, a peer and the  *)
(* host drive them.                                                        *)

Next ==
    \/ \E data \in DataInputs : receiveData(data)
    \/ \E pins \in PinSets : receiveStatus(pins)
    \/ inRBR(AddrCPU) /\ printMessageIO(AddrCPU)
    \/ inMSR(AddrCPU) /\ printMessageIO(AddrCPU)
    \/ \E b \in IERBytes : outIER(b, AddrCPU) /\ printMessageIO(AddrCPU)
    \/ \E b \in LCRBytes : outLCR(b, AddrCPU) /\ printMessageIO(AddrCPU)

Spec == Init /\ [][Next]_vars

---------------------------------------------------------------------------
(* The register file under bus writes: the divisor latch aliases, THR and  *)
(* the transmit path.  The host delivers single bytes.                     *)

NextBus ==
    \/ \E b \in THRBytes, accepted \in BOOLEAN : outTHR(b, accepted, AddrCPU) /\ printMessageIO(AddrCPU)
    \/ \E b \in DLMBytes : outIER(b, AddrCPU) /\ printMessageIO(AddrCPU)
    \/ \E b \in LCRBytes : outLCR(b, AddrCPU) /\ printMessageIO(AddrCPU)
    \/ \E b \in BusMCRBytes : outMCR(b, AddrCPU) /\ printMessageIO(AddrCPU)
    \/ inRBR(AddrCPU) /\ printMessageIO(AddrCPU)
    \/ inIER(AddrCPU) /\ printMessageIO(AddrCPU)
    \/ \E b \in DataBytes : receiveData([t |-> "number", v |-> b])
    \/ initConnection(TRUE, "full")

SpecBus == Init /\ [][NextBus]_vars

---------------------------------------------------------------------------
(* The modem control lines and the connection to a peer or a mouse.        *)

NextModem ==
    \/ \E b \in MCRBytes : outMCR(b, AddrCPU) /\ printMessageIO(AddrCPU)
    \/ inMCR(AddrCPU) /\ printMessageIO(AddrCPU)
    \/ \E pins \in ModemPinSets : receiveStatus(pins)
    \/ inMSR(AddrCPU) /\ printMessageIO(AddrCPU)
    \/ \E fNull \in BOOLEAN, target \in Targets : initConnection(fNull, target)
    \/ \E idMatches \in BOOLEAN : attachMouse(idMatches)

SpecModem == Init /\ [][NextModem]_vars

---------------------------------------------------------------------------
(* Snapshots: save(), restore() and the resets between register writes and *)
(* deliveries.  The machine has no connection parameter.                   *)

\* what the host delivers while snapshots are explored
SnapInputs == {[t |-> "number", v |-> 16], [t |-> "array", v |-> <<16, 32>>]}

NextSnap ==
    \/ save
    \/ \E data \in Snapshots : restore(data)
    \/ reset
    \/ \E data \in {NoData} \cup Snapshots, fRepower \in BOOLEAN :
          powerUp(data, fRepower, "none")
    \/ \E data \in SnapInputs : receiveData(data)
    \/ inRBR(AddrCPU) /\ printMessageIO(AddrCPU)
    \/ \E b \in {1} : outIER(b, AddrCPU) /\ printMessageIO(AddrCPU)
    \/ \E b \in LCRBytes : outLCR(b, AddrCPU) /\ printMessageIO(AddrCPU)

SpecSnap == Init /\ [][NextSnap]_vars

---------------------------------------------------------------------------
(* The life cycle of a connection: every operation of the port, with the   *)
(* host delivering one byte at a time to an idle receiver.                 *)

\* what the registry lookup yields while the life cycle is explored
LifeTargets == {"none", "full"}

NextLife ==
    \/ save
    \/ \E data \in Snapshots : restore(data)
    \/ reset
    \/ \E data \in {NoData} \cup Snapshots, fRepower \in BOOLEAN, target \in LifeTargets :
          powerUp(data, fRepower, target)
    \/ abReceive = <<>> /\ receiveData([t |-> "number", v |-> 16])
    \/ \E pins \in {0} : receiveStatus(pins)
    \/ inRBR(AddrCPU) /\ printMessageIO(AddrCPU)
    \/ \E b \in {1} : outIER(b, AddrCPU) /\ printMessageIO(AddrCPU)
    \/ \E target \in LifeTargets : initConnection(TRUE, target)
    \/ attachMouse(TRUE)

SpecLife == Init /\ [][NextLife]_vars

---------------------------------------------------------------------------
(* Two serial ports whose machines each name the other in their connection *)
(* parameter.  This port is constructed and through initBus(); the other   *)
(* may not exist yet.  The bus of a machine runs once its port powered up. *)

Powered == bLSR # UNDEFINED

\* the other port as the registry knows it
LinkTarget == IF peer.stage = "absent" THEN "missing" ELSE "serial"

InitLink ==
    /\ bRBR = UNDEFINED
    /\ bTHR = UNDEFINED
    /\ wDL = UNDEFINED
    /\ bIER = UNDEFINED
    /\ bIIR = UNDEFINED
    /\ bLCR = UNDEFINED
    /\ bMCR = UNDEFINED
    /\ bLSR = UNDEFINED
    /\ bMSR = UNDEFINED
    /\ abReceive = UNDEFINED
    /\ connection = NULL
    /\ sendData = FALSE
    /\ updateStatus = FALSE
    /\ fNullModem = TRUE
    /\ consoleOutput = NULL
    /\ irqLine = "none"
    /\ op = "initBus"
    /\ arg = NULL
    /\ ret = NULL
    /\ irr = <<>>
    /\ pinsOut = <<>>
    /\ sent = <<>>
    /\ printed = <<>>
    /\ gDLL = UNDEFINED
    /\ gDLM = UNDEFINED
    /\ gUnread = FALSE
    /\ controlIOBuffer = NULL
    /\ iLogicalCol = 0
    /\ calls = <<>>
    /\ snapshot = NULL
    /\ snapAliased = FALSE
    /\ peer \in {PeerAbsent, [PeerAbsent EXCEPT !.stage = "ready"]}
    /\ Adapter1

NextLink ==
    \/ powerUp(NoData, FALSE, LinkTarget)
    \/ \E fNull \in BOOLEAN : initConnection(fNull, LinkTarget)
    \/ \E b \in THRBytes, accepted \in BOOLEAN : Powered /\ outTHR(b, accepted, AddrCPU) /\ printMessageIO(AddrCPU)
    \/ \E b \in BusMCRBytes : Powered /\ outMCR(b, AddrCPU) /\ printMessageIO(AddrCPU)
    \/ peerInitBus
    \/ peerPowerUp
    \/ peerInRBR
    \/ \E b \in {1} : peerOutIER(b)

SpecLink == InitLink /\ [][NextLink]_vars

---------------------------------------------------------------------------
(* The transmit sinks: a port constructed with or without the "console"    *)
(* binding, with or without a bound control, and a peer that may refuse.   *)

\* bytes the bus transmits: 'A', LF, CR and BS
SinkBytes == {65, 10, 13, 8}

\* what the registry lookup yields while the sinks are explored
SinkTargets == {"dataOnly"}

InitSink ==
    /\ initState
    /\ Adapter1
    /\ connection = NULL
    /\ sendData = FALSE
    /\ updateStatus = FALSE
    /\ fNullModem = TRUE
    /\ consoleOutput \in {NULL, <<>>}
    /\ irqLine = "none"
    /\ op = "powerUp"
    /\ arg = NULL
    /\ ret = NULL
    /\ irr = <<>>
    /\ pinsOut = <<>>
    /\ sent = <<>>
    /\ printed = <<>>
    /\ gDLL = DL_DEFAULT % 256
    /\ gDLM = DL_DEFAULT \div 256
    /\ gUnread = FALSE
    /\ controlIOBuffer \in {NULL, <<>>}
    /\ iLogicalCol = 0
    /\ calls = <<>>
    /\ snapshot = NULL
    /\ snapAliased = FALSE
    /\ peer = PeerAbsent

NextSink ==
    \/ \E b \in SinkBytes, accepted \in BOOLEAN : outTHR(b, accepted, AddrCPU) /\ printMessageIO(AddrCPU)
    \/ \E b \in LCRBytes : outLCR(b, AddrCPU) /\ printMessageIO(AddrCPU)
    \/ \E target \in SinkTargets : initConnection(TRUE, target)

SpecSink == InitSink /\ [][NextSink]_vars

---------------------------------------------------------------------------
(* The "console" binding: a port without a control and without a           *)
(* connection logs what it transmits, line by line.                        *)

\* bytes the bus transmits: 'A', 'B' and LF
ConsoleBytes == {65, 66, 10}

\* the line a port holds that transmitted 'A' over and over, up to MaxLine
\* characters before the flush threshold
LongLine ==
    LET n == CONSOLE_MAX - MaxLine
    IN  SubSeq([i \in 1..n |-> 65], 1, n)

InitConsole ==
    /\ initState
    /\ Adapter1
    /\ connection = NULL
    /\ sendData = FALSE
    /\ updateStatus = FALSE
    /\ fNullModem = TRUE
    /\ consoleOutput \in {<<>>, LongLine}
    /\ irqLine = "none"
    /\ op = "powerUp"
    /\ arg = NULL
    /\ ret = NULL
    /\ irr = <<>>
    /\ pinsOut = <<>>
    /\ sent = <<>>
    /\ printed = <<>>
    /\ gDLL = DL_DEFAULT % 256
    /\ gDLM = DL_DEFAULT \div 256
    /\ gUnread = FALSE
    /\ Unbound

NextConsole ==
    \/ \E b \in ConsoleBytes : outTHR(b, FALSE, AddrCPU) /\ printMessageIO(AddrCPU)
    \/ \E b \in LCRBytes : outLCR(b, AddrCPU) /\ printMessageIO(AddrCPU)

SpecConsole == InitConsole /\ [][NextConsole]_vars

---------------------------------------------------------------------------
(* Properties of the receive path and the interrupt arbiter (Spec)         *)

DR == And(bLSR, LSR_DR) # 0

RxEnabled == And(bIER, IER_RBR_AVAIL) # 0

MsrEnabled == And(bIER, IER_MSR_DELTA) # 0

\* some delta bit of the MSR is set
MsrDelta == And(bMSR, MSR_DCTS + MSR_DDSR + MSR_TERI + MSR_DRLSD) # 0

\* C1: bytes delivered while LSR.DR is set leave RBR alone and are all
\* appended to the receive queue; an offset-0 read that finds a backlog
\* stages exactly its head into RBR and shortens the queue by one.
C1_OneDeepStaging ==
    [][ /\ (op' = "receiveData" /\ DR) =>
             /\ bRBR' = bRBR
             /\ abReceive' = abReceive \o arg'
             /\ DR'
        /\ (op' = "inRBR" /\ Len(abReceive) > 0) =>
             /\ bRBR' = Head(abReceive)
             /\ abReceive' = Tail(abReceive)
             /\ Len(abReceive') = Len(abReceive) - 1
             /\ DR'
      ]_vars

\* an offset-0 read has just staged one byte of a backlog and left the rest queued
C1_Witness ==
    /\ op = "inRBR"
    /\ DR
    /\ Len(abReceive) >= 1
    /\ bRBR \in DataBytes

\* C2: with receive-available enabled, an empty queue and DR clear, a delivery
\* of [b1, b2] sets DR, encodes receive-data-available in IIR with the
\* no-interrupt bit clear and asserts the interrupt line; the next offset-0
\* read (DLAB clear) returns b1, stages b2, leaves DR set and asks for no clear.
C2_ScenarioD ==
    [][ /\ (/\ op' = "receiveData"
            /\ Len(arg') = 2
            /\ abReceive = <<>>
            /\ ~DR
            /\ RxEnabled) =>
             /\ DR'
             /\ And(bIIR', IIR_NO_INT + IIR_INT_BITS) = IIR_INT_RBR
             /\ irr' = <<"setIRR">>
        /\ (/\ op = "receiveData"
            /\ Len(arg) = 2
            /\ abReceive = <<arg[2]>>
            /\ RxEnabled
            /\ ~DLAB
            /\ op' = "inRBR") =>
             /\ ret' = arg[1]
             /\ bRBR' = arg[2]
             /\ abReceive' = <<>>
             /\ DR'
             /\ irr' = <<"setIRR">>
      ]_vars

\* the read that follows the two-byte delivery: 0x10 returned, 0x20 staged
C2_Witness ==
    /\ op = "inRBR"
    /\ ret = 16
    /\ bRBR = 32
    /\ abReceive = <<>>
    /\ DR
    /\ RxEnabled
    /\ irr = <<"setIRR">>
    /\ And(bIIR, IIR_NO_INT + IIR_INT_BITS) = IIR_INT_RBR

\* C3: whenever the arbiter has just recomputed with both the receive
\* condition and the modem-status condition true, IIR encodes
\* receive-data-available; it encodes modem-status only when the receive
\* condition is not matched.
C3_Priority ==
    irr # <<>> =>
        /\ (DR /\ RxEnabled /\ MsrDelta /\ MsrEnabled) =>
              And(bIIR, IIR_NO_INT + IIR_INT_BITS) = IIR_INT_RBR
        /\ And(bIIR, IIR_NO_INT + IIR_INT_BITS) = IIR_INT_MSR =>
              ~(DR /\ RxEnabled)

\* the arbiter has just recomputed with both conditions true
C3_Witness ==
    /\ irr = <<"setIRR">>
    /\ DR /\ RxEnabled /\ MsrDelta /\ MsrEnabled
    /\ And(bIIR, IIR_NO_INT + IIR_INT_BITS) = IIR_INT_RBR

\* C4: after every operation, IIR bit0 is clear exactly when the receive
\* condition or the modem-status condition holds.
C4_IIRTracksConditions ==
    (And(bIIR, IIR_NO_INT) = 0) <=>
        ((DR /\ RxEnabled) \/ (MsrDelta /\ MsrEnabled))

\* C5: a read of offset 6 returns the MSR as it was and leaves the four delta
\* bits clear and the four level bits unchanged.
C5_MSRRead ==
    [][ op' = "inMSR" =>
          /\ ret' = bMSR
          /\ And(bMSR', MSR_DCTS + MSR_DDSR + MSR_TERI + MSR_DRLSD) = 0
          /\ Shr(bMSR', 4) = Shr(bMSR, 4)
      ]_vars

\* an MSR read has just returned set delta bits and cleared them
C5_Witness ==
    /\ op = "inMSR"
    /\ ret = MSR_CTS + MSR_DSR + MSR_DCTS + MSR_DDSR
    /\ bMSR = MSR_CTS + MSR_DSR

\* C6: LSR.DR is set if and only if RBR holds a byte that was staged from the
\* receive queue and that no offset-0 read has returned yet.
C6_DRIffUnread == DR <=> gUnread

---------------------------------------------------------------------------
(* Properties of the register file (SpecBus)                               *)

\* the transmit sink took the byte of the last offset-0 write: the peer
\* answered true, or a local sink exists
SinkAccepted == consoleOutput # NULL \/ (sent # <<>> /\ sent[1].ok)

\* C7: after an offset-0 write of v with DLAB clear, THR is v, THRE and TSRE
\* are both set if the sink accepted the byte and both clear if not, and no
\* other LSR bit changes.
C7_THRWrite ==
    [][ (op' = "outTHR" /\ ~DLAB) =>
          /\ bTHR' = arg'
          /\ And(bLSR', LSR_THRE + LSR_TSRE) =
                IF SinkAccepted' THEN LSR_THRE + LSR_TSRE ELSE 0
          /\ AndNot(bLSR', LSR_THRE + LSR_TSRE) = AndNot(bLSR, LSR_THRE + LSR_TSRE)
      ]_vars

\* the peer has just refused a byte while a received byte was waiting
C7_Witness ==
    /\ op = "outTHR"
    /\ bTHR = 88
    /\ sent = <<[b |-> 88, ok |-> FALSE]>>
    /\ bLSR = LSR_DR

\* C8: under DLAB a write to offset 0 changes only the low byte of the divisor
\* latch and a write to offset 1 only its high byte, THR, IER and LSR stay
\* and nothing is transmitted; without DLAB no write changes the divisor
\* latch; the divisor latch stays within 0..0xFFFF.
C8_DivisorLatchWrites ==
    [][ /\ (op' = "outTHR" /\ DLAB) =>
             /\ wDL' % 256 = arg'
             /\ wDL' \div 256 = wDL \div 256
             /\ UNCHANGED <<bTHR, bIER, bLSR>>
             /\ sent' = <<>>
             /\ printed' = <<>>
        /\ (op' = "outIER" /\ DLAB) =>
             /\ wDL' \div 256 = arg'
             /\ wDL' % 256 = wDL % 256
             /\ UNCHANGED <<bTHR, bIER, bLSR>>
             /\ sent' = <<>>
             /\ printed' = <<>>
        /\ (op' \in {"outTHR", "outIER", "outLCR", "outMCR"} /\ ~DLAB) =>
             wDL' = wDL
        /\ wDL' \in 0..65535
      ]_vars

\* both bytes of the divisor latch have been rewritten, the high byte last
C8_Witness ==
    /\ op = "outIER"
    /\ DLAB
    /\ wDL = 88

\* C9: a read of offset 0 returns the last byte written through DLL when LCR
\* bit7 is set and RBR when it is clear; a read of offset 1 returns the last
\* byte written through DLM when bit7 is set and IER when it is clear.
C9_AliasedReads ==
    [][ /\ op' = "inRBR" => ret' = IF DLAB THEN gDLL ELSE bRBR
        /\ op' = "inIER" => ret' = IF DLAB THEN gDLM ELSE bIER
      ]_vars

\* with a divisor written and DLAB cleared again, offset 0 has returned RBR
C9_Witness ==
    /\ op = "inRBR"
    /\ ~DLAB
    /\ gDLL = 88
    /\ gDLM = 0
    /\ wDL = 88
    /\ ret = 16

---------------------------------------------------------------------------
(* Properties of the modem control lines (SpecModem)                       *)

\* the pins the crossover table gives for an MCR value
ExpectedPins(b, fNull) ==
    LET dtr == b % 2 = 1
        rts == (b \div 2) % 2 = 1
    IN  IF fNull
        THEN (IF rts THEN RS232_CTS ELSE 0)
             + (IF dtr THEN RS232_DSR + RS232_CD ELSE 0)
        ELSE (IF rts THEN RS232_RTS ELSE 0)
             + (IF dtr THEN RS232_DTR ELSE 0)

\* C10: an MCR write that changes DTR or RTS while a peer's updateStatus is
\* bound passes exactly the crossover (null-modem) or straight-through pins.
C10_PeerPins ==
    [][ (/\ op' = "outMCR"
         /\ arg' % 4 # bMCR % 4
         /\ updateStatus) =>
          pinsOut' = <<ExpectedPins(arg', fNullModem)>>
      ]_vars

\* a null-modem peer has just been told CTS, DSR and CD
C10_Witness ==
    /\ op = "outMCR"
    /\ connection = "full"
    /\ fNullModem
    /\ pinsOut = <<RS232_CTS + RS232_DSR + RS232_CD>>

\* C15: an initConnection() that does not find its target, or finds one
\* without the exported receive functions, leaves connection, sendData and
\* updateStatus absent.
C15_FailedResolutionLeavesAbsent ==
    [][ (/\ op' = "initConnection"
         /\ connection = NULL
         /\ arg'[2] \in {"missing", "noExports"}) =>
          /\ connection' = NULL
          /\ ~sendData'
          /\ ~updateStatus'
      ]_vars

\* C17: attachMouse() returns the port, sets connection to the mouse,
\* updateStatus to its callback and fNullModem to false exactly when the id
\* is this port's and the port has no connection; otherwise it returns null
\* and leaves connection, updateStatus and fNullModem as they were.
C17_AttachMouse ==
    [][ op' = "attachMouse" =>
          IF arg' /\ connection = NULL
          THEN /\ ret' = "this"
               /\ connection' = "mouse"
               /\ updateStatus'
               /\ ~fNullModem'
          ELSE /\ ret' = NULL
               /\ UNCHANGED <<connection, updateStatus, fNullModem>>
      ]_vars

\* a mouse has just been attached to an unconnected port
C17_Witness ==
    /\ op = "attachMouse"
    /\ arg = TRUE
    /\ ret = "this"
    /\ connection = "mouse"
    /\ updateStatus
    /\ ~fNullModem

---------------------------------------------------------------------------
(* Properties of two connected serial ports (SpecLink)                     *)

\* the connection of the other port
PeerConn == <<peer.connection, peer.sendData, peer.updateStatus, peer.fNullModem>>

\* C14: initConnection() on a port that has a connection - called directly,
\* by its powerUp() or through the exported connect() - changes neither
\* port's connection, sendData, updateStatus or fNullModem.
C14_ResolutionIdempotent ==
    [][ /\ (op' = "initConnection" /\ connection # NULL) =>
             (UNCHANGED conn /\ PeerConn' = PeerConn)
        /\ (op' \in {"initConnection", "powerUp"} /\ peer.connection # NULL) =>
             PeerConn' = PeerConn
        /\ (op' = "peerPowerUp" /\ peer.connection # NULL) =>
             (UNCHANGED conn /\ PeerConn' = PeerConn)
        /\ (op' = "peerPowerUp" /\ connection # NULL) =>
             UNCHANGED conn
      ]_vars

\* initConnection(false) has just run on a connected port: fNullModem is
\* still what the first resolution left
C14_Witness ==
    /\ op = "initConnection"
    /\ arg = <<FALSE, "serial">>
    /\ connection = "serial"
    /\ sendData
    /\ fNullModem
    /\ peer.connection = "serial"

\* C16: once both ports have powered up, in either order, each port's
\* sendData and updateStatus are bound to the other's functions.
C16_BothBound ==
    (Powered /\ peer.stage = "powered") =>
        /\ connection = "serial"
        /\ sendData
        /\ updateStatus
        /\ peer.connection = "serial"
        /\ peer.sendData
        /\ peer.updateStatus

\* the other port has just powered up and both are bound, after this port
\* had powered up unconnected (its THR write found no sink)
C16_Witness ==
    /\ op = "peerPowerUp"
    /\ Powered
    /\ bTHR = 88
    /\ And(bLSR, LSR_THRE) = 0
    /\ connection = "serial"
    /\ sendData
    /\ updateStatus
    /\ peer.sendData
    /\ peer.updateStatus

\* C19: when an offset-0 write (DLAB clear) of a port connected to the other
\* serial port returns, the other port has the byte staged in RBR with DR
\* set (its DR was clear and its queue empty) or at the tail of its queue,
\* its updateIRR() has run, and this port's THRE and TSRE are set.
C19_SynchronousDelivery ==
    [][ (op' = "outTHR" /\ ~DLAB /\ sendData /\ connection = "serial") =>
          /\ IF And(peer.bLSR, LSR_DR) = 0 /\ peer.abReceive = <<>>
             THEN /\ peer'.bRBR = arg'
                  /\ And(peer'.bLSR, LSR_DR) # 0
                  /\ peer'.abReceive = <<>>
             ELSE /\ peer'.abReceive = Append(peer.abReceive, arg')
                  /\ peer'.bRBR = peer.bRBR
                  /\ peer'.bLSR = peer.bLSR
          /\ peer'.irr # <<>>
          /\ (peer'.irr = <<"setIRR">>) <=> (And(peer'.bIIR, IIR_NO_INT) = 0)
          /\ (And(peer'.bIIR, IIR_NO_INT) = 0) <=>
                \/ And(peer'.bLSR, LSR_DR) # 0 /\ And(peer'.bIER, 1) # 0
                \/ And(peer'.bMSR, 15) # 0 /\ And(peer'.bIER, 8) # 0
          /\ And(bLSR', LSR_THRE + LSR_TSRE) = LSR_THRE + LSR_TSRE
      ]_vars

\* a second byte has just been queued behind a staged one at the other port,
\* whose receive interrupt is enabled
C19_Witness ==
    /\ op = "outTHR"
    /\ connection = "serial"
    /\ sent = <<[b |-> 88, ok |-> TRUE]>>
    /\ peer.bRBR = 88
    /\ peer.abReceive = <<88>>
    /\ peer.irr = <<"setIRR">>
    /\ And(bLSR, LSR_THRE + LSR_TSRE) = LSR_THRE + LSR_TSRE

---------------------------------------------------------------------------
(* Properties of the transmit sinks (SpecSink)                             *)

\* the port has a local sink: a bound control or the console line buffer
LocalSink == controlIOBuffer # NULL \/ consoleOutput # NULL

\* C20: for a transmitted byte the peer's receive function, when bound, is
\* called before the local sink renders; the local sink renders the byte
\* whatever the peer answered; and the byte counts as transmitted (THRE and
\* TSRE set) exactly when the peer accepted it or a local sink exists.
C20_TransmitSinks ==
    [][ (op' = "outTHR" /\ ~DLAB) =>
          /\ sent' # <<>> <=> sendData
          /\ calls' = (IF sendData THEN <<"sendData">> ELSE <<>>)
                       \o (IF controlIOBuffer # NULL THEN <<"controlIOBuffer">>
                           ELSE IF consoleOutput # NULL THEN <<"consoleOutput">>
                           ELSE <<>>)
          /\ (controlIOBuffer # NULL /\ arg' >= 32) =>
                controlIOBuffer' = Append(controlIOBuffer, arg')
          /\ (controlIOBuffer = NULL /\ consoleOutput # NULL) =>
                IF arg' = 10
                THEN consoleOutput' = <<>> /\ printed' = <<consoleOutput>>
                ELSE consoleOutput' = Append(consoleOutput, arg')
          /\ (And(bLSR', LSR_THRE + LSR_TSRE) = LSR_THRE + LSR_TSRE) <=>
                ((sent' # <<>> /\ sent'[1].ok) \/ LocalSink)
          /\ (And(bLSR', LSR_THRE + LSR_TSRE) = 0) <=>
                ~((sent' # <<>> /\ sent'[1].ok) \/ LocalSink)
      ]_vars

\* the peer has just refused a byte that the console line buffer took
C20_Witness ==
    /\ op = "outTHR"
    /\ sent = <<[b |-> 65, ok |-> FALSE]>>
    /\ calls = <<"sendData", "consoleOutput">>
    /\ consoleOutput = <<65>>
    /\ And(bLSR, LSR_THRE + LSR_TSRE) = LSR_THRE + LSR_TSRE

---------------------------------------------------------------------------
(* Properties of snapshots and resets (SpecSnap)                           *)

\* C11: a snapshot that save() returned, restored into a device in whatever
\* state, is what the next save() of that device returns, in all ten
\* positions: restore() leaves the ten saved fields equal to the snapshot's,
\* and a save() right after it returns the restored data.
C11_SnapshotRoundTrip ==
    [][ /\ (op' = "restore" /\ Len(arg'[1]) = 10) =>
             saveRegisters' = arg'[1]
        /\ (op = "restore" /\ Len(arg[1]) = 10 /\ op' = "save") =>
             ret' = arg
      ]_vars

\* a snapshot with receive-available enabled, a staged byte and a backlog
\* has just been restored
C11_Witness ==
    /\ op = "restore"
    /\ Len(arg[1]) = 10
    /\ saveRegisters = arg[1]
    /\ bIER = 1
    /\ bRBR = 16
    /\ abReceive = <<32>>

\* C12: restore() of a snapshot whose register array has not ten elements
\* returns false, and so does a powerUp() that is given it.
C12_ShapeMismatchFails ==
    [][ /\ (op' = "restore" /\ Len(arg'[1]) # 10) => ret' = FALSE
        /\ (/\ op' = "powerUp"
            /\ ~arg'[2]
            /\ arg'[1] # NoData
            /\ Len(arg'[1][1]) # 10) => ret' = FALSE
      ]_vars

\* C13: powerUp() without data and not as a re-power leaves RBR 0, THR 0,
\* the divisor latch 0x180, IER 0, IIR 0x01, LCR 0, MCR 0, LSR THRE|TSRE,
\* MSR CTS|DSR and the receive queue empty, whatever they were.
C13_PowerUpResets ==
    [][ (op' = "powerUp" /\ arg' = <<NoData, FALSE>>) =>
          /\ bRBR' = 0
          /\ bTHR' = 0
          /\ wDL' = 384
          /\ bIER' = 0
          /\ bIIR' = 1
          /\ bLCR' = 0
          /\ bMCR' = 0
          /\ bLSR' = 96
          /\ bMSR' = 48
          /\ abReceive' = <<>>
          /\ ret' = TRUE
      ]_vars

\* a power-up has just reset a port whose interrupt request was pending
C13_Witness ==
    /\ op = "powerUp"
    /\ arg # NULL
    /\ arg = <<NoData, FALSE>>
    /\ irqLine = "setIRR"
    /\ saveRegisters = <<0, 0, 384, 0, 1, 0, 0, 96, 48, <<>>>>

---------------------------------------------------------------------------
(* Properties of the life cycle of a connection (SpecLife)                 *)

\* C18: once sendData or updateStatus is bound, no operation changes the
\* connection reference, sendData or updateStatus.
C18_ConnectionPersists ==
    [][ (sendData \/ updateStatus) =>
          UNCHANGED <<connection, sendData, updateStatus>>
      ]_vars

\* a restore has just run on a port that a mouse is attached to
C18_Witness ==
    /\ op = "restore"
    /\ connection = "mouse"
    /\ updateStatus
    /\ ~sendData

---------------------------------------------------------------------------
(* The port tables: what the bus dispatches a read or a write of            *)
(* portBase + offset to, for the CPU or for the Debugger.                   *)

\* mutant: a write to offset 2 clears the pending interrupt
outUnwired_ClearsIIR(offset, b) ==
    /\ bIIR' = IF offset = 2 THEN IIR_NO_INT ELSE bIIR
    /\ irr' = <<>>
    /\ UNCHANGED irqLine
    /\ Observe("outUnwired", <<offset, b>>, NULL)
    /\ Static
    /\ Aside
    /\ NoPeerCalls
    /\ printed' = <<>>
    /\ UNCHANGED <<bRBR, bTHR, wDL, bIER, bLCR, bMCR, bLSR, bMSR, abReceive, conn,
                   consoleOutput, hist>>

\* aPortOutput has no entry for the offset: no function of the port runs
outUnwired(offset, b) ==
    /\ Observe("outUnwired", <<offset, b>>, NULL)
    /\ Static
    /\ NoIRR
    /\ Aside
    /\ NoPeerCalls
    /\ printed' = <<>>
    /\ UNCHANGED <<bRBR, bTHR, wDL, bIER, bLCR, bMCR, bLSR, bMSR, abReceive, conn,
                   consoleOutput, hist>>

\* aPortInput has no entry for the offset: no function of the port runs,
\* and the port returns nothing
inUnwired(offset) ==
    /\ Observe("inUnwired", offset, UNDEFINED)
    /\ Static
    /\ NoIRR
    /\ Aside
    /\ NoPeerCalls
    /\ printed' = <<>>
    /\ UNCHANGED <<bRBR, bTHR, wDL, bIER, bLCR, bMCR, bLSR, bMSR, abReceive, conn,
                   consoleOutput, hist>>

\* SerialPort.aPortInput
aPortInput(offset, addrFrom) ==
    CASE offset = 0 -> inRBR(addrFrom)
      [] offset = 1 -> inIER(addrFrom)
      [] offset = 2 -> inIIR(addrFrom)
      [] offset = 3 -> inLCR(addrFrom)
      [] offset = 4 -> inMCR(addrFrom)
      [] offset = 5 -> inLSR(addrFrom)
      [] offset = 6 -> inMSR(addrFrom)
      [] OTHER -> inUnwired(offset)

\* SerialPort.aPortOutput
aPortOutput(offset, b, addrFrom) ==
    CASE offset = 0 -> outTHR(b, FALSE, addrFrom)
      [] offset = 1 -> outIER(b, addrFrom)
      [] offset = 3 -> outLCR(b, addrFrom)
      [] offset = 4 -> outMCR(b, addrFrom)
      [] OTHER -> outUnwired(offset, b)

\* the offsets of the eight ports of the adapter
Offsets == 0..7

\* the bytes the bus writes to an offset: DLAB set and clear to LCR, and
\* elsewhere the low four bits (every interrupt enabled)
PortBytes(offset) == IF offset = 3 THEN {0, 128} ELSE {15}

\* who makes the access: the Debugger or the CPU
AddrFroms == {UNDEFINED, AddrCPU}

NextPort ==
    \/ \E offset \in Offsets, addrFrom \in AddrFroms :
          aPortInput(offset, addrFrom) /\ printMessageIO(addrFrom)
    \/ \E offset \in Offsets, addrFrom \in AddrFroms :
          \E b \in PortBytes(offset) :
             aPortOutput(offset, b, addrFrom) /\ printMessageIO(addrFrom)
    \/ abReceive = <<>> /\ receiveData([t |-> "number", v |-> 16])
    \/ \E pins \in {0} : receiveStatus(pins)

SpecPort == Init /\ [][NextPort]_vars

---------------------------------------------------------------------------
(* Construction: the adapter number is 1, 2 or unrecognized, and the       *)
(* machine calls initBus() and powerUp() in that order.                    *)

Adapters == {1, 2, 3}

initBus ==
    /\ portTables = <<>>
    /\ portTables' = Registered(portBase)
    /\ Observe("initBus", NULL, NULL)
    /\ from' = UNDEFINED
    /\ NoIRR
    /\ NoPeerCalls
    /\ printed' = <<>>
    /\ Aside
    /\ UNCHANGED <<bRBR, bTHR, wDL, bIER, bLCR, bMCR, bLSR, bMSR, abReceive, conn,
                   consoleOutput, hist, config>>

\* the port as the constructor leaves it
InitInert ==
    /\ iAdapter \in Adapters
    /\ tabSize = 0
    /\ charBOL = 0
    /\ portTables = <<>>
    /\ from = UNDEFINED
    /\ bRBR = UNDEFINED
    /\ bTHR = UNDEFINED
    /\ wDL = UNDEFINED
    /\ bIER = UNDEFINED
    /\ bIIR = UNDEFINED
    /\ bLCR = UNDEFINED
    /\ bMCR = UNDEFINED
    /\ bLSR = UNDEFINED
    /\ bMSR = UNDEFINED
    /\ abReceive = UNDEFINED
    /\ connection = NULL
    /\ sendData = FALSE
    /\ updateStatus = FALSE
    /\ fNullModem = TRUE
    /\ consoleOutput = NULL
    /\ irqLine = "none"
    /\ op = "SerialPort"
    /\ arg = NULL
    /\ ret = NULL
    /\ irr = <<>>
    /\ pinsOut = <<>>
    /\ sent = <<>>
    /\ printed = <<>>
    /\ gDLL = UNDEFINED
    /\ gDLM = UNDEFINED
    /\ gUnread = FALSE
    /\ Unbound

\* the bus dispatches to the handlers of a port with a port base
Wired == chipset /\ portBase # UNDEFINED /\ Powered

NextInert ==
    \/ initBus
    \/ chipset /\ powerUp(NoData, FALSE, "none")
    \/ Powered /\ reset
    \/ \E b \in DataBytes : Powered /\ receiveData([t |-> "number", v |-> b])
    \/ Wired /\ inRBR(AddrCPU) /\ printMessageIO(AddrCPU)
    \/ \E b \in {1} : Wired /\ outIER(b, AddrCPU) /\ printMessageIO(AddrCPU)

SpecInert == InitInert /\ [][NextInert]_vars

\* C25: a port constructed with an adapter number other than 1 or 2 has no
\* port base and no IRQ, exports nothing, and no later call, initBus()
\* included, registers port handlers for it.
C25_InertStaysUnwired ==
    iAdapter \notin {1, 2} =>
        /\ portBase = UNDEFINED
        /\ nIRQ = UNDEFINED
        /\ ~exports
        /\ portTables = <<>>

---------------------------------------------------------------------------
(* The echo sink: a port with a bound control, constructed with or without *)
(* 'tabSize' and 'charBOL'.                                                *)

\* bytes the bus transmits: 'A', tab, CR and BS
EchoBytes == {65, 9, 13, 8}

\* the 'tabSize' parameter: absent or 3
TabSizes == {0, 3}

\* the 'charBOL' parameter: absent or '>'
BOLChars == {0, 62}

InitEcho ==
    /\ initState
    /\ from = UNDEFINED
    /\ iAdapter = 1
    /\ tabSize \in TabSizes
    /\ charBOL \in BOLChars
    /\ portTables = Registered(COM1_BASE)
    /\ connection = NULL
    /\ sendData = FALSE
    /\ updateStatus = FALSE
    /\ fNullModem = TRUE
    /\ consoleOutput = NULL
    /\ irqLine = "none"
    /\ op = "powerUp"
    /\ arg = NULL
    /\ ret = NULL
    /\ irr = <<>>
    /\ pinsOut = <<>>
    /\ sent = <<>>
    /\ printed = <<>>
    /\ gDLL = DL_DEFAULT % 256
    /\ gDLM = DL_DEFAULT \div 256
    /\ gUnread = FALSE
    /\ controlIOBuffer = <<>>
    /\ iLogicalCol = 0
    /\ calls = <<>>
    /\ snapshot = NULL
    /\ snapAliased = FALSE
    /\ peer = PeerAbsent

NextEcho == \E b \in EchoBytes : outTHR(b, FALSE, AddrCPU) /\ printMessageIO(AddrCPU)

SpecEcho == InitEcho /\ [][NextEcho]_vars

---------------------------------------------------------------------------
(* The port tables *)

\* C26: a byte written to offset 7 is what every read of offset 7 returns
\* until the next write to offset 7 (here: the read that follows the write
\* at once), and neither the write nor the read changes another register,
\* the receive queue or the interrupt state.
C26_ScratchReadsBack ==
    [][(op = "outUnwired" /\ arg[1] = 7 /\ op' = "inUnwired" /\ arg' = 7) =>
          /\ ret' = arg[2]
          /\ UNCHANGED <<regs, abReceive, irqLine>>]_vars

\* C27: a write to offset 2, 5, 6 or 7 finds no handler: IIR, LSR, MSR and
\* every other register, the receive queue, the connection and the sinks
\* are as before, and no call goes to the interrupt controller or the peer.
C27_UnwiredWrites ==
    [][op' = "outUnwired" =>
          /\ arg'[1] \in {2, 5, 6, 7}
          /\ UNCHANGED <<regs, abReceive, conn, consoleOutput, irqLine, hist,
                         controlIOBuffer, iLogicalCol, snap>>
          /\ irr' = <<>>
          /\ pinsOut' = <<>>
          /\ sent' = <<>>
          /\ printed' = <<>>]_vars

\* offset 2 was written while a receive interrupt is pending, and it is
\* still pending
C27_Witness ==
    /\ op = "outUnwired"
    /\ arg[1] = 2
    /\ bIIR = IIR_INT_RBR
    /\ irqLine = "setIRR"

\* the handlers of offsets 1 to 5
PureReads == {"inIER", "inIIR", "inLCR", "inMCR", "inLSR"}

\* what a handler of PureReads returns
PureValue(o) ==
    CASE o = "inIER" -> IF DLAB THEN Shr(wDL, 8) ELSE bIER
      [] o = "inIIR" -> bIIR
      [] o = "inLCR" -> bLCR
      [] o = "inMCR" -> bMCR
      [] o = "inLSR" -> bLSR

\* the handlers of aPortInput, and a read that finds none
PortReads == PureReads \cup {"inRBR", "inMSR", "inUnwired"}

\* C28: a read of offset 1, 2, 3, 4 or 5 returns IER (the divisor's high
\* byte under DLAB), IIR, LCR, MCR or LSR and changes no register and no
\* queue content and calls the interrupt controller not at all; of all
\* the reads only the read of offset 0 clears LSR.DR.
C28_PureReads ==
    [][/\ op' \in PureReads =>
             /\ ret' = PureValue(op')
             /\ UNCHANGED <<regs, abReceive, irqLine>>
             /\ irr' = <<>>
       /\ (op' \in PortReads /\ DR /\ ~DR') => op' = "inRBR"]_vars

\* LSR was read with DR set, and DR is still set
C28_Witness ==
    /\ op = "inLSR"
    /\ ret = bLSR
    /\ DR

\* C29: from reset, under port I/O, receiveData and receiveStatus, IIR
\* bits 3-7 are zero, IIR never holds the line-status code (0x06) or the
\* transmit-holding-empty code (0x02), and the overrun, parity, framing
\* and break bits of LSR are never set.
C29_NoLineStatus ==
    /\ And(bIIR, IIR_UNUSED) = 0
    /\ And(bIIR, IIR_INT_BITS) \notin {IIR_INT_LSR, IIR_INT_THR}
    /\ And(bLSR, LSR_OE + LSR_PE + LSR_FE + LSR_BI) = 0

\* every interrupt is enabled, THR is empty and updateIRR() ran: no
\* interrupt is pending
C29_Witness ==
    /\ And(bIER, IER_THR_EMPTY) # 0
    /\ And(bIER, IER_LSR_DELTA) # 0
    /\ And(bLSR, LSR_THRE) # 0
    /\ irr = <<"clearIRR">>
    /\ bIIR = IIR_NO_INT

\* C30: what a port handler returns and what it does to the registers, the
\* receive queue and the interrupt controller is the same with and without
\* addrFrom: a step of a handler is a step of it for either caller.  An
\* offset-0 read without addrFrom clears DR and stages the next byte.
C30_SameEffects ==
    [][/\ op' = "inRBR" => inRBR(AddrCPU) /\ inRBR(UNDEFINED)
       /\ op' = "inIER" => inIER(AddrCPU) /\ inIER(UNDEFINED)
       /\ op' = "inIIR" => inIIR(AddrCPU) /\ inIIR(UNDEFINED)
       /\ op' = "inLCR" => inLCR(AddrCPU) /\ inLCR(UNDEFINED)
       /\ op' = "inMCR" => inMCR(AddrCPU) /\ inMCR(UNDEFINED)
       /\ op' = "inLSR" => inLSR(AddrCPU) /\ inLSR(UNDEFINED)
       /\ op' = "inMSR" => inMSR(AddrCPU) /\ inMSR(UNDEFINED)
       /\ op' = "outTHR" =>
             outTHR(arg', FALSE, AddrCPU) /\ outTHR(arg', FALSE, UNDEFINED)
       /\ op' = "outIER" => outIER(arg', AddrCPU) /\ outIER(arg', UNDEFINED)
       /\ op' = "outLCR" => outLCR(arg', AddrCPU) /\ outLCR(arg', UNDEFINED)
       /\ op' = "outMCR" => outMCR(arg', AddrCPU) /\ outMCR(arg', UNDEFINED)
       /\ (op' = "inRBR" /\ from' = UNDEFINED) =>
             IF abReceive = <<>>
             THEN ~DR' /\ UNCHANGED <<bRBR, abReceive>>
             ELSE /\ DR'
                  /\ bRBR' = Head(abReceive)
                  /\ abReceive' = Tail(abReceive)]_vars

\* the Debugger read offset 0: it got the byte, and the next byte of the
\* queue is staged with DR set
C30_Witness ==
    /\ op = "inRBR"
    /\ from = UNDEFINED
    /\ ret = 16
    /\ DR
    /\ gUnread
    /\ abReceive = <<>>

---------------------------------------------------------------------------
(* The echo sink *)

\* the byte a write to offset 0 transmitted to the bound control
Echoes == op' = "outTHR" /\ ~DLAB /\ controlIOBuffer # NULL

\* what the step appended to the control's value
EchoAppended ==
    SubSeq(controlIOBuffer', Len(controlIOBuffer) + 1, Len(controlIOBuffer'))

\* the beginning-of-line character, where the code puts one
Filler == IF charBOL # 0 /\ iLogicalCol = 0 THEN <<charBOL>> ELSE <<>>

\* with a tab size w a tab appends w - (column mod w) spaces and advances
\* the column by as many, to a multiple of w
TabExpands ==
    (arg' = 9 /\ tabSize # 0) =>
        LET n == tabSize - (iLogicalCol % tabSize)
        IN  /\ controlIOBuffer' = controlIOBuffer \o Filler \o pad(n)
            /\ iLogicalCol' = iLogicalCol + n
            /\ iLogicalCol' % tabSize = 0

\* the column is never negative, CR sets it to 0, BS takes one off down to 0
ColumnRules ==
    /\ iLogicalCol' >= 0
    /\ arg' = 13 => iLogicalCol' = 0
    /\ arg' = 8 => iLogicalCol' = IF iLogicalCol > 0 THEN iLogicalCol - 1 ELSE 0

\* C23 as stated: with a tab size a tab expands to the next tab stop, and
\* without one the tab is dropped: nothing is appended for it.
C23_TabDropped ==
    [][Echoes =>
         /\ TabExpands
         /\ ColumnRules
         /\ (arg' = 9 /\ tabSize = 0) => controlIOBuffer' = controlIOBuffer]_vars

\* C23: with a tab size w a tab appends w - (column mod w) spaces and
\* advances the column by as many; without one the tab is not expanded:
\* the text str.toASCIICode gives for it is appended as it is, and the
\* column still advances to the next multiple of 8.  The column is never
\* negative, CR sets it to 0 and BS decrements it, but not below 0.
C23_TabHandling ==
    [][Echoes =>
         /\ TabExpands
         /\ ColumnRules
         /\ (arg' = 9 /\ tabSize = 0) =>
               /\ iLogicalCol' = iLogicalCol + 8 - (iLogicalCol % 8)
               /\ \E s \in ASCIICodes(9) :
                     controlIOBuffer' = controlIOBuffer \o Filler \o s]_vars

\* no tab size: a tab after 'A' was appended as a mnemonic and moved the
\* column from 1 to 8
C23_Witness ==
    /\ tabSize = 0
    /\ charBOL = 0
    /\ op = "outTHR"
    /\ arg = 9
    /\ controlIOBuffer = <<65, 60, 9, 62>>
    /\ iLogicalCol = 8

---------------------------------------------------------------------------
(* The console sink *)

\* the byte a write to offset 0 transmitted to the console sink
Logs == op' = "outTHR" /\ ~DLAB /\ Console

\* C21: every byte but the linefeed is appended to the console line without
\* a flush while the line is below the threshold; a linefeed prints exactly
\* one line, the characters accumulated since the last flush, empties the
\* line and is not appended itself.
C21_ConsoleLine ==
    [][Logs =>
         /\ arg' # 10 /\ Len(consoleOutput) < CONSOLE_MAX =>
               /\ printed' = <<>>
               /\ consoleOutput' = Append(consoleOutput, arg')
         /\ arg' = 10 =>
               /\ printed' = <<consoleOutput>>
               /\ consoleOutput' = <<>>]_vars

\* 'A', 'B' and a linefeed were written: the line "AB" is printed and the
\* buffer is empty
C21_Witness ==
    /\ op = "outTHR"
    /\ arg = 10
    /\ printed = << <<65, 66>> >>
    /\ consoleOutput = <<>>

\* C22 as stated: after every byte the console line holds fewer than 1024
\* characters.
C22_BelowThreshold == consoleOutput # NULL => Len(consoleOutput) < CONSOLE_MAX

\* the characters of the printed lines, in order
Flat(lines) == IF lines = <<>> THEN <<>> ELSE lines[1]

\* C22: the console line never holds more than 1024 characters: a byte that
\* arrives while it holds 1024 (or a linefeed) prints it as one line
\* and clears it before the byte is appended, so no printed line is longer
\* than 1024 characters and no character is lost or duplicated.
C22_AtMostThreshold ==
    [][Logs =>
         /\ Len(consoleOutput') <= CONSOLE_MAX
         /\ Len(printed') <= 1
         /\ printed' # <<>> <=> (arg' = 10 \/ Len(consoleOutput) = CONSOLE_MAX)
         /\ printed' # <<>> => Len(printed'[1]) <= CONSOLE_MAX
         /\ Flat(printed') \o consoleOutput' =
               consoleOutput \o (IF arg' = 10 THEN <<>> ELSE <<arg'>>)]_vars

\* a byte arrived while the line held 1024 characters: they are printed as
\* one line and the byte starts the next
C22_Witness ==
    /\ op = "outTHR"
    /\ arg = 66
    /\ printed # <<>>
    /\ Len(printed[1]) = CONSOLE_MAX
    /\ consoleOutput = <<66>>

---------------------------------------------------------------------------
(* The modem status deltas and the modem control writes *)

\* the level of an MSR bit
Level(msr, bit) == And(msr, bit) # 0

\* C31: the delta bits record changes since the last MSR read (here: a
\* receiveStatus() that follows an offset-6 read at once): delta-CTS is set
\* if and only if the CTS level changed, delta-DSR if and only if the DSR
\* level changed.
C31_DeltaTracksChange ==
    [][(op = "inMSR" /\ op' = "receiveStatus") =>
          /\ Level(bMSR', MSR_DCTS) <=> (Level(bMSR', MSR_CTS) # Level(bMSR, MSR_CTS))
          /\ Level(bMSR', MSR_DDSR) <=> (Level(bMSR', MSR_DSR) # Level(bMSR, MSR_DSR))]_vars

\* C32: a write to MCR stores the byte, and calls updateStatus() at most
\* once, exactly when the write changes DTR or RTS and updateStatus is
\* bound: a write that changes OUT1, OUT2 or loop-back only, or that writes
\* DTR and RTS as they are, makes no call.
C32_MCRNotifies ==
    [][op' = "outMCR" =>
          /\ bMCR' = arg'
          /\ Len(pinsOut') <= 1
          /\ pinsOut' # <<>> <=>
                /\ And(arg', MCR_DTR + MCR_RTS) # And(bMCR, MCR_DTR + MCR_RTS)
                /\ updateStatus]_vars

\* with updateStatus bound, OUT2 was set on top of DTR and RTS, which were
\* set already: the byte is stored and no call was made
C32_Witness ==
    /\ op = "outMCR"
    /\ arg = 11
    /\ bMCR = 11
    /\ updateStatus
    /\ pinsOut = <<>>

---------------------------------------------------------------------------
(* Two serial ports and a mouse: the machines power their ports up in      *)
(* either order, and a serial mouse may attach itself to this port first.  *)

NextPair ==
    \/ powerUp(NoData, FALSE, LinkTarget)
    \/ attachMouse(TRUE)
    \/ \E b \in THRBytes, accepted \in BOOLEAN : Powered /\ outTHR(b, accepted, AddrCPU) /\ printMessageIO(AddrCPU)
    \/ \E b \in MCRBytes : Powered /\ outMCR(b, AddrCPU) /\ printMessageIO(AddrCPU)
    \/ peerInitBus
    \/ peerPowerUp
    \/ peerInRBR
    \/ \E b \in {1} : peerOutIER(b)

SpecPair == InitLink /\ [][NextPair]_vars

---------------------------------------------------------------------------
(* The registers the bus writes whole bytes to *)

\* bytes the bus writes to offsets 1 and 4: none, the defined bits, all bits
WholeBytes == {0, 15, 255}

NextRegs ==
    \/ \E b \in WholeBytes : outIER(b, AddrCPU) /\ printMessageIO(AddrCPU)
    \/ \E b \in WholeBytes : outMCR(b, AddrCPU) /\ printMessageIO(AddrCPU)
    \/ \E b \in LCRBytes : outLCR(b, AddrCPU) /\ printMessageIO(AddrCPU)
    \/ inIER(AddrCPU) /\ printMessageIO(AddrCPU)
    \/ inMCR(AddrCPU) /\ printMessageIO(AddrCPU)

SpecRegs == Init /\ [][NextRegs]_vars

\* C34: the unused bits of IER (0xF0) and of MCR (0xE0) are always zero:
\* whatever bytes were written to offsets 1 and 4, a read of IER or of MCR
\* returns a value with those bits clear.
C34_UnusedBitsZero ==
    [][/\ (op' = "inIER" /\ ~DLAB) => And(ret', IER_UNUSED) = 0
       /\ op' = "inMCR" => And(ret', MCR_UNUSED) = 0]_vars

---------------------------------------------------------------------------
(* The inbound bytes between delivery and the read that returns them *)

\* the bytes the port holds for software: the staged byte, then the queue
Pending == (IF DR THEN <<bRBR>> ELSE <<>>) \o abReceive

\* C35: no received byte is lost or reordered.  Step by step: a delivery
\* appends its bytes to the bytes the port holds; an LCR write leaves them
\* alone; an offset-0 read issued while DR is set returns the first of them
\* and leaves the others, in order.
C35_NoByteLost ==
    [][/\ op' = "receiveData" => Pending' = Pending \o arg'
       /\ op' = "outLCR" => Pending' = Pending
       /\ (op' = "inRBR" /\ DR) => Pending = <<ret'>> \o Pending']_vars

\* C36: from reset, under port I/O, receiveData and receiveStatus, a
\* non-empty receive queue implies that LSR.DR is set.
C36_QueuedImpliesDR == Len(abReceive) > 0 => DR

\* a read of offset 0 took the staged byte while another was queued behind
\* a third: the next byte is staged again and one is still waiting
C36_Witness == op = "inRBR" /\ Len(abReceive) > 0 /\ DR

---------------------------------------------------------------------------
(* Draining the receive queue: software polls offset 0 *)

\* The port after the last delivery, when software has read LSR and found
\* DR set: receiveData() pushed the byte 'data' behind the bytes already
\* held and advanceRBR() ran, so the first of them is staged and updateIRR()
\* has arbitrated with the IER and MSR of that moment.  iir is IIR before
\* the delivery: 0x01 after a reset, 0x05 after a receive interrupt was
\* serviced.
InitDrain ==
    /\ \E held \in SeqsUpTo(DataBytes, MaxQueue) \ {<<>>}, data \in DataBytes :
          /\ bRBR = Head(held)
          /\ abReceive = Tail(held) \o <<data>>
    /\ bTHR = 0
    /\ wDL = DL_DEFAULT
    /\ bIER \in IERBytes
    /\ bLCR \in LCRBytes
    /\ bMCR = 0
    /\ bLSR = LSR_THRE + LSR_TSRE + LSR_DR
    /\ bMSR \in {bMSRInit, StatusMSR(bMSRInit, RS232_CTS)}
    /\ \E iir \in {IIR_NO_INT, IIR_NO_INT + IIR_INT_RBR} :
          bIIR = IRRValue(iir, IRRCode(bLSR, bMSR, bIER))
    /\ irqLine = IRRCall(IRRCode(bLSR, bMSR, bIER))
    /\ irr = <<>>
    /\ Unbound
    /\ iAdapter = 1
    /\ tabSize = 0
    /\ charBOL = 0
    /\ portTables = Registered(COM1_BASE)
    /\ from = AddrCPU
    /\ connection = NULL
    /\ sendData = FALSE
    /\ updateStatus = FALSE
    /\ fNullModem = TRUE
    /\ consoleOutput = NULL
    /\ op = "inLSR"
    /\ arg = NULL
    /\ ret = bLSR
    /\ pinsOut = <<>>
    /\ sent = <<>>
    /\ printed = <<>>
    /\ gDLL = DL_DEFAULT % 256
    /\ gDLM = DL_DEFAULT \div 256
    /\ gUnread = TRUE

\* software polls the port: it reads offsets 0, 2, 5 and 6
NextDrain ==
    \/ inRBR(AddrCPU) /\ printMessageIO(AddrCPU)
    \/ inIIR(AddrCPU) /\ printMessageIO(AddrCPU)
    \/ inLSR(AddrCPU) /\ printMessageIO(AddrCPU)
    \/ inMSR(AddrCPU) /\ printMessageIO(AddrCPU)

\* the read of offset 0, taken again and again
Poll == op' = "inRBR" /\ inRBR(AddrCPU) /\ printMessageIO(AddrCPU)

SpecDrain == InitDrain /\ [][NextDrain]_vars /\ WF_vars(Poll)

\* the queue is empty and DR is clear; IIR reports no receive interrupt;
\* with no enabled modem status delta the interrupt controller was asked to
\* clear the line and IIR has its no-interrupt bit set
Drained ==
    /\ abReceive = <<>>
    /\ ~DR
    /\ ~(And(bIIR, IIR_NO_INT) = 0 /\ And(bIIR, IIR_INT_BITS) = IIR_INT_RBR)
    /\ IRRCode(bLSR, bMSR, bIER) < 0 => (irqLine = "clearIRR" /\ And(bIIR, IIR_NO_INT) # 0)
    /\ op = "inIIR" => (And(ret, IIR_NO_INT) # 0 \/ And(ret, IIR_INT_BITS) # IIR_INT_RBR)

\* C37: once deliveries have stopped, if software keeps reading offset 0,
\* then from some point on the receive queue is empty, DR is clear, IIR
\* reports no receive-data-available interrupt and, absent an enabled modem
\* status delta, the interrupt controller was asked to clear the line.
C37_ReceiveDrain == <>[]Drained

\* the read that took the last byte, after the receive interrupt was raised
C37_Witness ==
    /\ op = "inRBR" /\ ret \in DataBytes
    /\ And(bIER, IER_RBR_AVAIL) # 0
    /\ Drained /\ irqLine = "clearIRR"

---------------------------------------------------------------------------
(* The connect handshake, call by call.  Two serial ports, "this" and     *)
(* "other", each in a machine whose connection parameter names it as the   *)
(* source; desc[e] is what the registry lookup of port e's target yields.  *)

MaxDepth == 5

Ends == {"this", "other"}

Descs == [Ends -> {"none", "missing", "this", "other"}]

\* the connection field of port e, by the name of the port it refers to
Named(e, v) ==
    CASE v = "serial" -> IF e = "this" THEN "other" ELSE "this"
      [] v = "self" -> e
      [] OTHER -> v

\* and back
Stored(e, n) ==
    CASE n = e -> "self"
      [] n \in Ends -> "serial"
      [] OTHER -> n

\* the connection fields of the two ports
EndState ==
    [this |-> [connection |-> Named("this", connection), sendData |-> sendData,
               updateStatus |-> updateStatus, fNullModem |-> fNullModem],
     other |-> [connection |-> Named("other", peer.connection),
                sendData |-> peer.sendData, updateStatus |-> peer.updateStatus,
                fNullModem |-> peer.fNullModem]]

\* mutant: the port records its connection after the target's connect() returns
RECURSIVE Connect_RecordsLate(_, _, _, _, _)
Connect_RecordsLate(e, fNull, c, desc, fuel) ==
    IF fuel = 0
    THEN [c |-> c, trace |-> <<"overflow">>]
    ELSE IF c[e].connection # NULL \/ desc[e] \in {"none", "missing"}
         THEN [c |-> c, trace |-> <<e>>]
         ELSE LET n == Connect_RecordsLate(desc[e], c[e].fNullModem, c, desc, fuel - 1)
                  c2 == [n.c EXCEPT ![e].connection = desc[e],
                                    ![e].sendData = TRUE,
                                    ![e].fNullModem = fNull,
                                    ![e].updateStatus = TRUE]
              IN  [c |-> c2, trace |-> <<e>> \o n.trace]

\* initConnection(fNull) of port e and the calls nested in it: the fields
\* of both ports when it returns and the ports whose initConnection() was
\* entered, outermost first.  fuel cuts a chain that is MaxDepth calls deep.
RECURSIVE Connect(_, _, _, _, _)
Connect(e, fNull, c, desc, fuel) ==
    IF fuel = 0
    THEN [c |-> c, trace |-> <<"overflow">>]
    ELSE IF c[e].connection # NULL \/ desc[e] \in {"none", "missing"}
         THEN [c |-> c, trace |-> <<e>>]
         ELSE LET c1 == [c EXCEPT ![e].connection = desc[e]]
                  n == Connect(desc[e], c1[e].fNullModem, c1, desc, fuel - 1)
                  c2 == [n.c EXCEPT ![e].sendData = TRUE,
                                    ![e].fNullModem = fNull,
                                    ![e].updateStatus = TRUE]
              IN  [c |-> c2, trace |-> <<e>> \o n.trace]

\* powerUp() of port e calls initConnection(this.fNullModem); the registry
\* finds the other port once it is constructed
handshake(e, desc) ==
    LET r == Connect(e, EndState[e].fNullModem, EndState, desc, MaxDepth)
    IN  /\ "other" \in {e, desc["this"]} => peer.stage # "absent"
        /\ connection' = Stored("this", r.c.this.connection)
        /\ sendData' = r.c.this.sendData
        /\ updateStatus' = r.c.this.updateStatus
        /\ fNullModem' = r.c.this.fNullModem
        /\ peer' = [peer EXCEPT !.connection = Stored("other", r.c.other.connection),
                                !.sendData = r.c.other.sendData,
                                !.updateStatus = r.c.other.updateStatus,
                                !.fNullModem = r.c.other.fNullModem,
                                !.irr = <<>>]
        /\ Observe("initConnection", <<e, desc["this"], desc["other"]>>, r.trace)
        /\ Caller(UNDEFINED)
        /\ NoIRR
        /\ NoTransmit
        /\ NoSnap
        /\ NoPeerCalls
        /\ printed' = <<>>
        /\ UNCHANGED <<bRBR, bTHR, wDL, bIER, bLCR, bMCR, bLSR, bMSR, abReceive,
                       consoleOutput, hist>>

NextShake ==
    \/ \E e \in Ends, desc \in Descs : handshake(e, desc)
    \/ attachMouse(TRUE)
    \/ peerInitBus

SpecShake == InitLink /\ [][NextShake]_vars

\* C38: the connect handshake terminates.  For every pair of descriptors,
\* a port that targets itself included, initConnection() is entered at
\* most three times (A, B, A), and a third call is the no-op on a port
\* that recorded its connection earlier in the chain.
C38_HandshakeBounded ==
    op = "initConnection" =>
        /\ Len(ret) <= 3
        /\ ret[Len(ret)] # "overflow"
        /\ Len(ret) = 3 => ret[3] \in {ret[1], ret[2]}

\* this port resolved to the other, whose resolution called this port back
C38_Witness ==
    /\ op = "initConnection"
    /\ ret = <<"this", "other", "this">>
    /\ connection = "serial"
    /\ peer.connection = "serial"

\* a port whose descriptor targets itself: its connect() is called once, by itself
C38_SelfWitness ==
    /\ op = "initConnection"
    /\ ret = <<"this", "this">>
    /\ connection = "self"

---------------------------------------------------------------------------
(* The interrupt request line and IIR *)

\* C39: in every reachable state, states reached through reset and restore
\* included, the last request made to the interrupt controller is an assert
\* exactly when IIR's no-interrupt bit is clear.
C39_LineMatchesIIR == (irqLine = "setIRR") <=> (And(bIIR, IIR_NO_INT) = 0)

\* C40: whenever IIR's no-interrupt bit is set the condition code bits are
\* zero: IIR, and the value a read of offset 2 returns, is exactly 0x01
\* when no interrupt is pending.
C40_NoIntIsOne ==
    /\ And(bIIR, IIR_NO_INT) # 0 => bIIR = IIR_NO_INT
    /\ (op = "inIIR" /\ And(ret, IIR_NO_INT) # 0) => ret = IIR_NO_INT

=============================================================================
